---- MODULE Spec2Model ----
(***************************************************************************)
(* Verification model of dexkcd/website-checker: the bounded crawl         *)
(* (WebsiteScraper / SimpleWebsiteScraper), the link relevance filter, the *)
(* page classification (PageAnalystAgent) and the collection orchestrator. *)
(* Strings that the code inspects character by character (URLs, hrefs) are *)
(* sequences of one-character strings; strings that the code only compares *)
(* or copies (titles, reasoning texts) are TLA+ strings.                   *)
(***************************************************************************)
EXTENDS Integers, Sequences, FiniteSets, TLC

(***************************************************************************)
(* Bounds of the model.                                                    *)
(***************************************************************************)
\* page budgets (max_pages) range over 0..MaxBudget
MaxBudget == 5
\* per-page judgments in one classification response: 0..MaxJudgments
MaxJudgments == 6

(***************************************************************************)
(* Character-level string helpers (Python str methods used by the code).   *)
(***************************************************************************)
S_http == <<"h","t","t","p",":","/","/">>
S_https == <<"h","t","t","p","s",":","/","/">>

\* str.startswith(p)
StartsWith(s, p) == Len(s) >= Len(p) /\ SubSeq(s, 1, Len(p)) = p

\* p in s  (substring test)
Contains(s, p) ==
    \E i \in 1..(Len(s) - Len(p) + 1) : SubSeq(s, i, i + Len(p) - 1) = p

\* str.lower() on the characters the model uses in upper case
LowerChar(c) ==
    CASE c = "P" -> "p"
      [] c = "D" -> "d"
      [] c = "F" -> "f"
      [] OTHER -> c

Lower(s) == [i \in 1..Len(s) |-> LowerChar(s[i])]

IsSpace(c) == c = " "

RECURSIVE LStrip(_)
LStrip(s) == IF s # <<>> /\ IsSpace(Head(s)) THEN LStrip(Tail(s)) ELSE s

RECURSIVE RStrip(_)
RStrip(s) ==
    IF s # <<>> /\ IsSpace(s[Len(s)]) THEN RStrip(SubSeq(s, 1, Len(s) - 1)) ELSE s

\* str.strip()
Strip(s) == RStrip(LStrip(s))

\* index of the first character of s that belongs to set cs, Len(s)+1 if none
RECURSIVE FindFirst(_, _, _)
FindFirst(s, cs, i) ==
    IF i > Len(s) THEN Len(s) + 1
    ELSE IF s[i] \in cs THEN i ELSE FindFirst(s, cs, i + 1)

\* index of the last "/" of s, 0 if none
RECURSIVE LastSlash(_, _)
LastSlash(s, i) ==
    IF i = 0 THEN 0 ELSE IF s[i] = "/" THEN i ELSE LastSlash(s, i - 1)

(***************************************************************************)
(* urllib.parse as the scrapers use it: urlparse(...).netloc and urljoin.  *)
(* Queries and params do not occur in the modelled URLs.                   *)
(***************************************************************************)
Letters ==
    {"a","b","c","d","e","f","g","h","i","j","k","l","m","n","o","p","q","r",
     "s","t","u","v","w","x","y","z","P","D","F"}

Digits == {"0","1","2","3","4","5","6","7","8","9"}

SchemeChars == Letters \cup Digits \cup {"+","-","."}

\* urlsplit, last step: cut the fragment off at the first "#" (index h)
SplitRecord(scheme, netloc, tail, h) ==
    [scheme |-> scheme, netloc |-> netloc,
     path |-> SubSeq(tail, 1, h - 1),
     fragment |-> SubSeq(tail, h + 1, Len(tail))]

SplitFragment(scheme, netloc, tail) ==
    SplitRecord(scheme, netloc, tail, FindFirst(tail, {"#"}, 1))

\* urlsplit: the netloc runs from after "//" to the first "/" or "#" (index d)
SplitPath(scheme, rest, d) ==
    SplitFragment(scheme, SubSeq(rest, 3, d - 1), SubSeq(rest, d, Len(rest)))

SplitNetloc(scheme, rest) ==
    IF StartsWith(rest, <<"/","/">>)
    THEN SplitPath(scheme, rest, FindFirst(rest, {"/","#"}, 3))
    ELSE SplitFragment(scheme, <<>>, rest)

\* urlsplit: what precedes the first ":" (index c) is the scheme when it is
\* made of scheme characters and starts with a letter
SplitScheme(url, default, c) ==
    IF /\ c > 1 /\ c <= Len(url)
       /\ url[1] \in Letters
       /\ \A k \in 1..(c - 1) : url[k] \in SchemeChars
    THEN SplitNetloc(Lower(SubSeq(url, 1, c - 1)), SubSeq(url, c + 1, Len(url)))
    ELSE SplitNetloc(default, url)

SplitStripped(url, default) == SplitScheme(url, default, FindFirst(url, {":"}, 1))

\* urlsplit(url, default): scheme, netloc, path, fragment
UrlSplit(url, default) == SplitStripped(LStrip(url), default)

\* urlparse(url).netloc
Netloc(url) == UrlSplit(url, <<>>).netloc

\* urlunparse for scheme/netloc/path/fragment
UnsplitNetloc(netloc, path) ==
    IF netloc = <<>> THEN path
    ELSE IF path # <<>> /\ path[1] # "/"
         THEN <<"/","/">> \o netloc \o <<"/">> \o path
         ELSE <<"/","/">> \o netloc \o path

UnsplitScheme(scheme, rest) ==
    IF scheme # <<>> THEN scheme \o <<":">> \o rest ELSE rest

UnsplitFragment(url, fragment) ==
    IF fragment # <<>> THEN url \o <<"#">> \o fragment ELSE url

UrlUnsplit(scheme, netloc, path, fragment) ==
    UnsplitFragment(UnsplitScheme(scheme, UnsplitNetloc(netloc, path)), fragment)

\* schemes of urllib's uses_relative / uses_netloc that the model can meet
UsesRelative == {<<>>, <<"h","t","t","p">>, <<"h","t","t","p","s">>}

\* urljoin: a relative path replaces the last segment of the base path
JoinRelative(dir, path) ==
    IF dir = <<>> THEN <<"/">> \o path ELSE dir \o path

\* urljoin once base (b) and url (u) are split
JoinParts(url, b, u) ==
    IF u.scheme # b.scheme \/ u.scheme \notin UsesRelative THEN url
    ELSE UrlUnsplit(u.scheme,
            IF u.netloc # <<>> THEN u.netloc ELSE b.netloc,
            IF u.netloc # <<>> THEN u.path
            ELSE IF u.path = <<>> THEN b.path
            ELSE IF u.path[1] = "/" THEN u.path
            ELSE JoinRelative(SubSeq(b.path, 1, LastSlash(b.path, Len(b.path))),
                              u.path),
            u.fragment)

JoinBase(url, b) == JoinParts(url, b, UrlSplit(url, b.scheme))

\* urljoin(base, url)
UrlJoin(base, url) ==
    IF base = <<>> THEN url
    ELSE IF url = <<>> THEN base
    ELSE JoinBase(url, UrlSplit(base, <<>>))

(***************************************************************************)
(* URL Normalizer / Validator.                                             *)
(***************************************************************************)
\* variant of the prefixing that does not look at the start of the string
add_protocol_always(url) == S_https \o url

\* normalize_url: "Add protocol if missing"
add_protocol(url) ==
    IF StartsWith(url, S_http) \/ StartsWith(url, S_https) THEN url
    ELSE S_https \o url

\* WebsiteScraper.normalize_url
normalize_url(url) ==
    IF url = <<>> THEN <<>> ELSE add_protocol(Strip(url))

\* extension list of WebsiteScraper.is_valid_url
BrowserExts ==
    { <<".","p","d","f">>, <<".","d","o","c">>, <<".","d","o","c","x">>,
      <<".","j","p","g">>, <<".","j","p","e","g">>, <<".","p","n","g">>,
      <<".","g","i","f">>, <<".","m","p","4">>, <<".","m","p","3">>,
      <<".","z","i","p">>, <<".","e","x","e">> }

\* extension list of SimpleWebsiteScraper.is_valid_url
SimpleExts ==
    { <<".","p","d","f">>, <<".","d","o","c">>, <<".","d","o","c","x">>,
      <<".","j","p","g">>, <<".","j","p","e","g">>, <<".","p","n","g">>,
      <<".","g","i","f">>, <<".","m","p","4">>, <<".","m","p","3">> }

SpecialPrefixes ==
    { <<"m","a","i","l","t","o",":">>, <<"t","e","l",":">>,
      <<"j","a","v","a","s","c","r","i","p","t",":">>, <<"#">> }

\* WebsiteScraper.is_valid_url(url, base_domain)
is_valid_url(url0, base0) ==
    \E url \in {normalize_url(url0)} :
    \E base \in {normalize_url(base0)} :
    \E parsed_url \in {UrlSplit(url, <<>>)} :
    \E parsed_base \in {UrlSplit(base, <<>>)} :
    \E lower \in {Lower(url)} :
        IF parsed_url.netloc = <<>> \/ parsed_base.netloc = <<>> THEN FALSE
        ELSE LET same_domain == parsed_url.netloc = parsed_base.netloc
                 not_file    == ~ \E ext \in BrowserExts : Contains(lower, ext)
                 not_special == ~ \E p \in SpecialPrefixes : StartsWith(lower, p)
             IN  same_domain /\ not_file /\ not_special

\* SimpleWebsiteScraper.is_valid_url(url, base_domain)
simple_is_valid_url(url, base) ==
    \E lower \in {Lower(url)} :
        /\ Netloc(url) = Netloc(base)
        /\ ~ \E ext \in SimpleExts : Contains(lower, ext)

(***************************************************************************)
(* The web the crawler runs against: each site maps a URL to the document  *)
(* served there (title, text, hrefs of its anchors in document order).     *)
(***************************************************************************)
U_root == S_https \o <<"a","/">>
U_p == S_https \o <<"a","/","p">>
U_q == S_https \o <<"a","/","q">>
U_r == S_https \o <<"a","/","r">>
U_d == S_https \o <<"a","/","d">>
U_st == S_https \o <<"a","/","s","/","t">>

H_p == <<"/","p">>
H_q == <<"/","q">>
H_r == <<"/","r">>
H_root == <<"/">>
H_d == <<"/","d">>
H_x == <<"x">>
H_pSpace == <<"/","p"," ">>
H_top == <<"#","t","o","p">>
H_hash == <<"#">>
H_mailto == <<"m","a","i","l","t","o",":","x","@","a">>
H_tel == <<"t","e","l",":","1">>
H_js == <<"j","a","v","a","s","c","r","i","p","t",":","v">>
H_other == S_https \o <<"b","/">>
H_zip == <<"/","f",".","z","i","p">>
H_PDF == <<"/","f",".","P","D","F">>
H_gift == <<"/","p",".","g","i","f","t">>

Doc(title, words, hrefs) ==
    [title |-> title, content |-> title, words |-> words, hrefs |-> hrefs]

\* a document reached through redirects: location is the URL the fetch ends at
DocAt(title, words, hrefs, location) ==
    [title |-> title, content |-> title, words |-> words, hrefs |-> hrefs,
     location |-> location]

\* current_url = page.url after page.goto(requested): the redirect target if
\* there is one
landed_url(requested, doc) ==
    IF "location" \in DOMAIN doc THEN doc.location ELSE requested

\* one page, no outbound links
SiteSingle == (U_root :> Doc("Home", 1, <<>>))

\* a small graph with a cycle: root -> p, q ; p -> r, root ; q -> p
SiteGraph ==
    (U_root :> Doc("Home", 2, <<H_p, H_q>>)) @@
    (U_p :> Doc("P", 3, <<H_r, H_root>>)) @@
    (U_q :> Doc("Q", 1, <<H_p>>)) @@
    (U_r :> Doc("R", 1, <<>>))

\* fragments, mail links, another host
SiteFragments ==
    (U_root :> Doc("Home", 2, <<H_top, H_mailto, H_other, H_p>>)) @@
    (U_p :> Doc("P", 1, <<H_hash>>))

\* downloads, tel/javascript links, an href with trailing white space
SiteFiles ==
    (U_root :> Doc("Home", 2, <<H_tel, H_js, H_zip, H_PDF, H_gift, H_p, H_pSpace>>)) @@
    (U_p :> Doc("P", 1, <<>>))

\* /d redirects to /s/t, whose document has a relative link
SiteRedirect ==
    (U_root :> Doc("Home", 2, <<H_d>>)) @@
    (U_d :> DocAt("T", 1, <<H_x>>, U_st))

Sites == <<SiteSingle, SiteGraph, SiteFragments, SiteFiles, SiteRedirect>>

\* start URLs a caller passes: a full URL and one without a scheme
StartUrls == {U_root, <<"a","/">>}

\* the document a request for url reaches (the fragment is not sent)
Resource(url) ==
    LET h == FindFirst(url, {"#"}, 1) IN SubSeq(url, 1, h - 1)

(***************************************************************************)
(* Link relevance judgments.  A response of the judgment source is either  *)
(* an exception of the call, text that is no JSON, JSON that is no object, *)
(* or a JSON object; JSON values are written as strings.                   *)
(***************************************************************************)
LinkResponses ==
    { [kind |-> "raise"], [kind |-> "garbled"], [kind |-> "nondict"],
      [kind |-> "json", is_worth_checking |-> "true", relevance_score |-> 8],
      [kind |-> "json", is_worth_checking |-> "false", relevance_score |-> 2],
      [kind |-> "json", relevance_score |-> 7] }

\* Python truth value of a JSON value
Truthy(v) == v \notin {"false", "null", "0", "str:"}

\* dict.get(key, default)
Get(d, key, default) == IF key \in DOMAIN d THEN d[key] ELSE default

\* variant of evaluate_link_relevance whose fallbacks reject the link
evaluate_fail_closed(url, resp) ==
    IF resp.kind \in {"raise", "garbled", "nondict"}
    THEN [url |-> url, relevance_score |-> 5,
          reasoning |-> "Error during evaluation",
          confidence |-> "low", priority |-> "low",
          is_worth_checking |-> "false"]
    ELSE [url |-> url,
          relevance_score |-> Get(resp, "relevance_score", 0),
          reasoning |-> Get(resp, "reasoning", "No reasoning provided"),
          confidence |-> Get(resp, "confidence", "medium"),
          priority |-> Get(resp, "priority", "low"),
          is_worth_checking |-> Get(resp, "is_worth_checking", "false")]

\* LinkRelevanceAgent.evaluate_link_relevance(url, ...), given the response
\* of the one judgment call it makes
evaluate_link_relevance(url, resp) ==
    IF resp.kind = "raise"
    THEN [url |-> url, relevance_score |-> 5,
          reasoning |-> "Error during evaluation",
          confidence |-> "low", priority |-> "low",
          is_worth_checking |-> "true"]
    ELSE IF resp.kind \in {"garbled", "nondict"}
    THEN [url |-> url, relevance_score |-> 5,
          reasoning |-> "Could not parse AI response",
          confidence |-> "low", priority |-> "low",
          is_worth_checking |-> "true"]
    ELSE [url |-> url,
          relevance_score |-> Get(resp, "relevance_score", 0),
          reasoning |-> Get(resp, "reasoning", "No reasoning provided"),
          confidence |-> Get(resp, "confidence", "medium"),
          priority |-> Get(resp, "priority", "low"),
          is_worth_checking |-> Get(resp, "is_worth_checking", "false")]

\* variant of the filter's test that admits every evaluated link
keep_always(evaluation) == <<evaluation>>

\* "if evaluation.get('is_worth_checking', False): relevant_links.append(evaluation)"
keep_if_worth(evaluation) ==
    IF Truthy(Get(evaluation, "is_worth_checking", "false"))
    THEN <<evaluation>> ELSE <<>>

\* the loop of WebsiteScraper.filter_links_by_relevance from link i on
RECURSIVE filter_loop(_, _, _)
filter_loop(links, resps, i) ==
    IF i > Len(links) THEN <<>>
    ELSE keep_if_worth(evaluate_link_relevance(links[i], resps[i]))
         \o filter_loop(links, resps, i + 1)

\* WebsiteScraper.filter_links_by_relevance(links, ...)
filter_links_by_relevance(enabled, links, resps) ==
    IF ~enabled
    THEN [i \in 1..Len(links) |->
             [url |-> links[i], relevance_score |-> 5, is_worth_checking |-> "true"]]
    ELSE filter_loop(links, resps, 1)

\* variant of the loop of the filter that evaluates every link twice
judgment_calls_twice(enabled, links) ==
    IF enabled THEN links \o links ELSE <<>>

\* the links evaluate_link_relevance is called for, in call order: one call
\* per element of links, none when filtering is disabled
judgment_calls(enabled, links) ==
    IF enabled THEN links ELSE <<>>

(***************************************************************************)
(* Page Extractor.                                                         *)
(***************************************************************************)
\* "if self.is_valid_url(full_url, normalized_url): raw_links.append(full_url)"
keep_if_valid(full_url, normalized_url) ==
    IF is_valid_url(full_url, normalized_url) THEN <<full_url>> ELSE <<>>

\* the anchor loop of WebsiteScraper.scrape_page: the in-scope resolved links
RECURSIVE raw_links(_, _, _)
raw_links(normalized_url, hrefs, i) ==
    IF i > Len(hrefs) THEN <<>>
    ELSE keep_if_valid(UrlJoin(normalized_url, hrefs[i]), normalized_url)
         \o raw_links(normalized_url, hrefs, i + 1)

\* "if self.is_valid_url(full_url, url): links.append(full_url)"
simple_keep_if_valid(full_url, url) ==
    IF simple_is_valid_url(full_url, url) THEN <<full_url>> ELSE <<>>

\* the anchor loop of SimpleWebsiteScraper.scrape_page
RECURSIVE simple_links(_, _, _)
simple_links(url, hrefs, i) ==
    IF i > Len(hrefs) THEN <<>>
    ELSE simple_keep_if_valid(UrlJoin(url, hrefs[i]), url)
         \o simple_links(url, hrefs, i + 1)

\* variant of the error record that carries a link
ErrorRecordWithLinks(url) ==
    [url |-> url, error |-> "error", scraped_at |-> "ts", links |-> <<url \o <<"x">>>>]

\* the record scrape_page returns from its except branch
ErrorRecord(url) ==
    [url |-> url, error |-> "error", scraped_at |-> "ts"]

\* the record WebsiteScraper.scrape_page returns for a loaded document
PageRecord(url, doc, links) ==
    [url |-> url, normalized_url |-> normalize_url(url),
     actual_url |-> landed_url(normalize_url(url), doc),
     title |-> doc.title, content |-> doc.content, meta_description |-> "",
     links |-> links, word_count |-> doc.words,
     screenshot_path |-> "screenshots/shot", screenshot_filename |-> "shot",
     scraped_at |-> "ts"]

\* the record SimpleWebsiteScraper.scrape_page returns for a loaded document
SimplePageRecord(url, doc, links) ==
    [url |-> url, title |-> doc.title, content |-> doc.content,
     meta_description |-> "", links |-> links, word_count |-> doc.words,
     scraped_at |-> "ts"]

\* "links = [link_data['url'] for link_data in filtered_links_data]"
urls_of(filtered_links_data) ==
    [k \in 1..Len(filtered_links_data) |-> filtered_links_data[k].url]

\* scrape_page from "Filter links by relevance if enabled" on
links_for_crawling(enabled, raw, resps) ==
    IF enabled THEN urls_of(filter_links_by_relevance(enabled, raw, resps))
    ELSE raw

\* WebsiteScraper.scrape_page(url): loaded tells whether navigation and
\* extraction went through, resps are the judgment responses for the page's
\* in-scope links in order
scrape_page(url, site, enabled, loaded, resps) ==
    IF ~loaded THEN ErrorRecord(url)
    ELSE PageRecord(url, site[Resource(normalize_url(url))],
             links_for_crawling(enabled,
                 raw_links(normalize_url(url),
                           site[Resource(normalize_url(url))].hrefs, 1),
                 resps))

\* SimpleWebsiteScraper.scrape_page(url)
simple_scrape_page(url, site, loaded) ==
    IF ~loaded THEN ErrorRecord(url)
    ELSE SimplePageRecord(url, site[Resource(url)],
             simple_links(url, site[Resource(url)].hrefs, 1))

(***************************************************************************)
(* Fetch layer handles of WebsiteScraper (playwright, browser, context):   *)
(* "none" is Python None, "live" a started object, "closed" a closed one.  *)
(***************************************************************************)
NoHandles == [playwright |-> "none", browser |-> "none", context |-> "none"]

StartOutcomes == {"ok", "no_playwright", "no_browser", "no_context"}

\* WebsiteScraper.start_browser: the handles it leaves behind when it
\* completes ("ok") or raises at one of its three steps
start_browser(h, outcome) ==
    IF h.playwright # "none" THEN h
    ELSE CASE outcome = "no_playwright" -> h
           [] outcome = "no_browser" -> [h EXCEPT !.playwright = "live"]
           [] outcome = "no_context" ->
                  [h EXCEPT !.playwright = "live", !.browser = "live"]
           [] OTHER ->
                  [playwright |-> "live", browser |-> "live", context |-> "live"]

\* whether that start_browser call raises
start_raises(h, outcome) == h.playwright = "none" /\ outcome # "ok"

\* variant of close_browser that releases nothing
close_noop(h) == h

\* WebsiteScraper.close_browser
close_browser(h) ==
    [k \in DOMAIN h |-> IF h[k] = "none" THEN "none" ELSE "closed"]

(***************************************************************************)
(* Crawl Controller, and the job that calls it: crawl_website is called    *)
(* directly or by collect_university_info.                                 *)
(***************************************************************************)
VARIABLES
    kind,                  \* "browser": WebsiteScraper, "simple": SimpleWebsiteScraper
    enable_link_filtering, \* WebsiteScraper.enable_link_filtering
    siteId,                \* the site being crawled (index into Sites)
    start_url, max_pages,  \* arguments of crawl_website
    pc,                    \* position of crawl_website
    visited_urls,          \* self.visited_urls
    scraped_data,          \* self.scraped_data
    urls_to_visit,         \* the local list urls_to_visit
    handles,               \* self.playwright, self.browser, self.context
    closeCalls,            \* history: calls of close_browser
    appended,              \* history: every append to urls_to_visit, in order
    lastRaw,               \* history: in-scope links of the page scraped last
    lastResp,              \* history: judgment responses for those links
    lastFiltered,          \* history: filtered_links_data of that page
    lastFetch,             \* history: "ok"/"fail" outcome of the last fetch
    jpc,                   \* position of collect_university_info, "direct" without it
    classifyCalls,         \* history: judgment calls of analyze_section_pages
    summaryCalls,          \* history: summary judgment calls
    traditional_analysis   \* the summary text of the job's result

crawlVars ==
    <<kind, enable_link_filtering, siteId, start_url, max_pages, pc,
      visited_urls, scraped_data, urls_to_visit, handles, closeCalls,
      appended, lastRaw, lastResp, lastFiltered, lastFetch>>

jobVars == <<jpc, classifyCalls, summaryCalls, traditional_analysis>>

VARIABLES
    corpus,           \* argument all_pages of analyze_section_pages
    response,         \* response of its judgment call
    returned_pages,   \* the list analyze_section_pages returns
    apc               \* "off", "input", "called"

analysisVars == <<corpus, response, returned_pages, apc>>

VARIABLES
    sections_config,  \* the taxonomy: self.sections_config['sections']
    sub_responses,    \* responses of the judgment calls, one per subsection
    section_analysis, \* the dict analyze_content_for_sections returns
    spc               \* "off", "input", "called"

sectionVars == <<sections_config, sub_responses, section_analysis, spc>>

VARIABLES
    caller,        \* the thread that calls _run_agent_in_thread: "off", "ready", "joining"
    threads,       \* the worker threads started so far, in start order
    calls,         \* what each call of _run_agent_in_thread gave its caller
    store_writes   \* writes of the caller to visited_urls, urls_to_visit, scraped_data

bridgeVars == <<caller, threads, calls, store_writes>>

VARIABLES
    input_url,     \* the argument of normalize_url
    once,          \* normalize_url(input_url)
    twice,         \* normalize_url(normalize_url(input_url))
    npc            \* "off", "input", "once", "twice"

normVars == <<input_url, once, twice, npc>>

VARIABLES
    summary_data   \* the rows of the CSV summary, once display_results ran

VARIABLES
    run,           \* calls of crawl_website on the scraper so far
    first_corpus,  \* the records of self.scraped_data when the first call returned
    sleeps         \* time.sleep(1) calls of the current crawl_website call

callVars == <<run, first_corpus, sleeps>>

VARIABLES
    translator,    \* TRUE: googletrans was imported, self.translator is set
    cache,         \* self.cache of the TranslationManager
    translations,  \* calls made on the TranslationManager so far
    last           \* the last call: its arguments and what it returned

translateVars == <<translator, cache, translations, last>>

vars == <<crawlVars, jobVars, analysisVars, sectionVars, bridgeVars, normVars,
          summary_data, callVars, translateVars>>

Site == Sites[siteId]

Range(seq) == {seq[i] : i \in 1..Len(seq)}

MaxRuns == 2

\* variant of the delay that is skipped after a failed fetch
sleep_if_loaded(page_data) == IF "error" \in DOMAIN page_data THEN 0 ELSE 1

\* "time.sleep(1)" at the end of an iteration that fetched: the delays it adds
sleep_after(page_data) == 1

\* the loop condition of crawl_website
loop_condition(frontier, visited, budget) ==
    frontier # <<>> /\ Cardinality(visited) < budget

\* variant of the pop that leaves the URL in the list
pop0_keep(frontier) == [current_url |-> Head(frontier), rest |-> frontier]

\* variant of the pop that takes the URL appended last
pop_last(frontier) ==
    [current_url |-> frontier[Len(frontier)],
     rest |-> SubSeq(frontier, 1, Len(frontier) - 1)]

\* current_url = urls_to_visit.pop(0): the URL taken and the list left
pop0(frontier) == [current_url |-> Head(frontier), rest |-> Tail(frontier)]

\* variant of the loop that appends without looking at the lists
RECURSIVE enqueue_unchecked(_, _, _, _)
enqueue_unchecked(links, i, visited, frontier) ==
    IF i > Len(links) THEN frontier
    ELSE enqueue_unchecked(links, i + 1, visited,
                           Append(frontier, normalize_url(links[i])))

\* the loop "for link in page_data['links']" of WebsiteScraper.crawl_website
RECURSIVE enqueue(_, _, _, _)
enqueue(links, i, visited, frontier) ==
    IF i > Len(links) THEN frontier
    ELSE LET normalized_link == normalize_url(links[i])
         IN  IF normalized_link \notin visited /\ normalized_link \notin Range(frontier)
             THEN enqueue(links, i + 1, visited, Append(frontier, normalized_link))
             ELSE enqueue(links, i + 1, visited, frontier)

\* the same loop of SimpleWebsiteScraper.crawl_website
RECURSIVE simple_enqueue(_, _, _, _)
simple_enqueue(links, i, visited, frontier) ==
    IF i > Len(links) THEN frontier
    ELSE IF links[i] \notin visited /\ links[i] \notin Range(frontier)
         THEN simple_enqueue(links, i + 1, visited, Append(frontier, links[i]))
         ELSE simple_enqueue(links, i + 1, visited, frontier)

\* "if 'links' in page_data and 'error' not in page_data: for link in ..."
enqueue_from(page_data, visited, rest) ==
    IF "links" \in DOMAIN page_data /\ "error" \notin DOMAIN page_data
    THEN enqueue(page_data.links, 1, visited, rest)
    ELSE rest

\* "if 'links' in page_data: for link in ..."
simple_enqueue_from(page_data, visited, rest) ==
    IF "links" \in DOMAIN page_data
    THEN simple_enqueue(page_data.links, 1, visited, rest)
    ELSE rest

\* history: the first link of links that is queued as u
FirstLinkFor(u, links, key(_)) ==
    links[CHOOSE j \in 1..Len(links) :
             /\ key(links[j]) = u
             /\ \A m \in 1..(j - 1) : key(links[m]) # u]

\* history entries for the URLs a step appended: the URL as queued, the link
\* of the record it was queued for, and the page that record describes
Appends(before, after, links, from, key(_)) ==
    [k \in 1..(Len(after) - Len(before)) |->
        [url |-> after[Len(before) + k],
         link |-> FirstLinkFor(after[Len(before) + k], links, key),
         from |-> from]]

Identity(u) == u

Init ==
    /\ kind \in {"browser", "simple"}
    /\ enable_link_filtering \in (IF kind = "browser" THEN BOOLEAN ELSE {FALSE})
    /\ siteId \in 1..Len(Sites)
    /\ start_url \in StartUrls
    /\ max_pages \in 0..MaxBudget
    /\ pc = "idle"
    /\ visited_urls = {}
    /\ scraped_data = <<>>
    /\ urls_to_visit = <<>>
    /\ handles = NoHandles
    /\ closeCalls = 0
    /\ appended = <<>>
    /\ lastRaw = <<>>
    /\ lastResp = <<>>
    /\ lastFiltered = <<>>
    /\ lastFetch = "none"
    /\ jpc \in {"direct", "collecting"}
    /\ classifyCalls = 0
    /\ summaryCalls = 0
    /\ traditional_analysis = "none"
    /\ corpus = <<>>
    /\ response = [kind |-> "raise"]
    /\ returned_pages = <<>>
    /\ apc = "off"
    /\ sections_config = <<>>
    /\ sub_responses = <<>>
    /\ section_analysis = <<>>
    /\ spc = "off"
    /\ caller = "off" /\ threads = <<>> /\ calls = <<>> /\ store_writes = 0
    /\ input_url = <<>> /\ once = <<>> /\ twice = <<>> /\ npc = "off"
    /\ summary_data = [exported |-> FALSE]
    /\ run = 0 /\ first_corpus = <<>> /\ sleeps = 0
    /\ translator = FALSE /\ cache = <<>> /\ translations = 0
    /\ last = [op |-> "none"]

\* WebsiteScraper.crawl_website up to its loop: clear, normalize, start_browser;
\* when start_browser raises, the finally clause closes and the exception
\* passes through collect_university_info
StartCrawl ==
    /\ kind = "browser"
    /\ \/ pc = "idle"
       \/ pc = "returned" /\ jpc = "direct" /\ run < MaxRuns
    /\ \E outcome \in StartOutcomes :
          LET normalized_start_url == normalize_url(start_url)
          IN  IF start_raises(handles, outcome)
              THEN /\ handles' = close_browser(start_browser(handles, outcome))
                   /\ closeCalls' = closeCalls + 1
                   /\ pc' = "raised"
                   /\ jpc' = IF jpc = "collecting" THEN "raised" ELSE jpc
                   /\ UNCHANGED <<urls_to_visit, appended>>
              ELSE /\ handles' = start_browser(handles, outcome)
                   /\ urls_to_visit' = <<normalized_start_url>>
                   /\ appended' = <<[url |-> normalized_start_url,
                                     link |-> start_url, from |-> <<>>]>>
                   /\ pc' = "loop"
                   /\ UNCHANGED <<closeCalls, jpc>>
    /\ visited_urls' = {}
    /\ scraped_data' = <<>>
    /\ lastRaw' = <<>> /\ lastResp' = <<>> /\ lastFiltered' = <<>>
    /\ lastFetch' = "none"
    /\ run' = run + 1
    /\ sleeps' = 0
    /\ UNCHANGED first_corpus
    /\ UNCHANGED <<kind, enable_link_filtering, siteId, start_url, max_pages>>
    /\ UNCHANGED <<classifyCalls, summaryCalls, traditional_analysis>>
    /\ UNCHANGED analysisVars
    /\ UNCHANGED sectionVars
    /\ UNCHANGED bridgeVars
    /\ UNCHANGED normVars
    /\ UNCHANGED summary_data
    /\ UNCHANGED translateVars

\* one iteration of the while loop of WebsiteScraper.crawl_website
CrawlStep ==
    /\ kind = "browser" /\ pc = "loop"
    /\ loop_condition(urls_to_visit, visited_urls, max_pages)
    /\ \E popped \in {pop0(urls_to_visit)} :
       \E normalized_current_url \in {normalize_url(popped.current_url)} :
          IF normalized_current_url \in visited_urls
          THEN /\ urls_to_visit' = popped.rest
               /\ UNCHANGED <<visited_urls, scraped_data, appended, lastRaw,
                              lastResp, lastFiltered, lastFetch, sleeps>>
          ELSE \E loaded \in BOOLEAN :
                 /\ loaded => /\ handles.context = "live"
                              /\ Resource(normalized_current_url) \in DOMAIN Site
                 /\ lastFetch' = IF loaded THEN "ok" ELSE "fail"
                 /\ \E raw \in {IF loaded
                                THEN raw_links(normalized_current_url,
                                         Site[Resource(normalized_current_url)].hrefs, 1)
                                ELSE <<>>} :
                    \E resps \in [1..Len(judgment_calls(enable_link_filtering, raw))
                                     -> LinkResponses] :
                       /\ lastRaw' = raw
                       /\ lastResp' = resps
                       /\ \E page_data \in {scrape_page(normalized_current_url, Site,
                                                enable_link_filtering, loaded, resps)} :
                          \E visited \in {visited_urls \cup {normalized_current_url}} :
                          \E frontier \in {enqueue_from(page_data, visited,
                                                        popped.rest)} :
                             /\ visited_urls' = visited
                             /\ scraped_data' = Append(scraped_data, page_data)
                             /\ sleeps' = sleeps + sleep_after(page_data)
                             /\ urls_to_visit' = frontier
                             /\ appended' = appended \o
                                   Appends(popped.rest, frontier,
                                           Get(page_data, "links", <<>>),
                                           normalized_current_url, normalize_url)
                             /\ lastFiltered' =
                                   IF loaded /\ enable_link_filtering
                                   THEN filter_links_by_relevance(TRUE, raw, resps)
                                   ELSE <<>>
    /\ UNCHANGED <<kind, enable_link_filtering, siteId, start_url, max_pages,
                   pc, handles, closeCalls>>
    /\ UNCHANGED jobVars
    /\ UNCHANGED analysisVars
    /\ UNCHANGED sectionVars
    /\ UNCHANGED bridgeVars
    /\ UNCHANGED normVars
    /\ UNCHANGED <<run, first_corpus>>
    /\ UNCHANGED summary_data
    /\ UNCHANGED translateVars

\* the loop has ended: return self.scraped_data, close_browser in finally
CrawlFinish ==
    /\ kind = "browser" /\ pc = "loop"
    /\ ~loop_condition(urls_to_visit, visited_urls, max_pages)
    /\ handles' = close_browser(handles)
    /\ closeCalls' = closeCalls + 1
    /\ pc' = "returned"
    /\ UNCHANGED <<kind, enable_link_filtering, siteId, start_url, max_pages,
                   visited_urls, scraped_data, urls_to_visit, appended,
                   lastRaw, lastResp, lastFiltered, lastFetch>>
    /\ UNCHANGED jobVars
    /\ UNCHANGED analysisVars
    /\ UNCHANGED sectionVars
    /\ UNCHANGED bridgeVars
    /\ UNCHANGED normVars
    /\ first_corpus' = IF run = 1 THEN scraped_data ELSE first_corpus
    /\ UNCHANGED <<run, sleeps>>
    /\ UNCHANGED summary_data
    /\ UNCHANGED translateVars

\* SimpleWebsiteScraper.crawl_website up to its loop
SimpleStart ==
    /\ kind = "simple"
    /\ \/ pc = "idle"
       \/ pc = "returned" /\ jpc = "direct" /\ run < MaxRuns
    /\ visited_urls' = {}
    /\ scraped_data' = <<>>
    /\ urls_to_visit' = <<start_url>>
    /\ appended' = <<[url |-> start_url, link |-> start_url, from |-> <<>>]>>
    /\ pc' = "loop"
    /\ UNCHANGED <<kind, enable_link_filtering, siteId, start_url, max_pages,
                   handles, closeCalls>>
    /\ lastRaw' = <<>> /\ lastResp' = <<>> /\ lastFiltered' = <<>>
    /\ lastFetch' = "none"
    /\ run' = run + 1
    /\ sleeps' = 0
    /\ UNCHANGED first_corpus
    /\ UNCHANGED jobVars
    /\ UNCHANGED analysisVars
    /\ UNCHANGED sectionVars
    /\ UNCHANGED bridgeVars
    /\ UNCHANGED normVars
    /\ UNCHANGED summary_data
    /\ UNCHANGED translateVars

\* requests.Session.get accepts only URLs that carry a scheme
HasHttpScheme(url) == StartsWith(url, S_http) \/ StartsWith(url, S_https)

\* one iteration of the while loop of SimpleWebsiteScraper.crawl_website
SimpleStep ==
    /\ kind = "simple" /\ pc = "loop"
    /\ loop_condition(urls_to_visit, visited_urls, max_pages)
    /\ \E popped \in {pop0(urls_to_visit)} :
       \E current_url \in {popped.current_url} :
          IF current_url \in visited_urls
          THEN /\ urls_to_visit' = popped.rest
               /\ UNCHANGED <<visited_urls, scraped_data, appended, lastRaw,
                              lastFetch, sleeps>>
          ELSE \E loaded \in BOOLEAN :
                 /\ loaded => /\ HasHttpScheme(current_url)
                              /\ Resource(current_url) \in DOMAIN Site
                 /\ lastFetch' = IF loaded THEN "ok" ELSE "fail"
                 /\ \E page_data \in {simple_scrape_page(current_url, Site, loaded)} :
                    \E visited \in {visited_urls \cup {current_url}} :
                    \E frontier \in {simple_enqueue_from(page_data, visited,
                                                         popped.rest)} :
                       /\ visited_urls' = visited
                       /\ scraped_data' = Append(scraped_data, page_data)
                       /\ sleeps' = sleeps + sleep_after(page_data)
                       /\ urls_to_visit' = frontier
                       /\ appended' = appended \o
                             Appends(popped.rest, frontier,
                                     Get(page_data, "links", <<>>),
                                     current_url, Identity)
                       /\ lastRaw' = Get(page_data, "links", <<>>)
    /\ UNCHANGED <<kind, enable_link_filtering, siteId, start_url, max_pages,
                   pc, handles, closeCalls, lastResp, lastFiltered>>
    /\ UNCHANGED jobVars
    /\ UNCHANGED analysisVars
    /\ UNCHANGED sectionVars
    /\ UNCHANGED bridgeVars
    /\ UNCHANGED normVars
    /\ UNCHANGED <<run, first_corpus>>
    /\ UNCHANGED summary_data
    /\ UNCHANGED translateVars

\* the loop has ended: return self.scraped_data
SimpleFinish ==
    /\ kind = "simple" /\ pc = "loop"
    /\ ~loop_condition(urls_to_visit, visited_urls, max_pages)
    /\ pc' = "returned"
    /\ UNCHANGED <<kind, enable_link_filtering, siteId, start_url, max_pages,
                   visited_urls, scraped_data, urls_to_visit, handles, closeCalls,
                   appended, lastRaw, lastResp, lastFiltered, lastFetch>>
    /\ UNCHANGED jobVars
    /\ UNCHANGED analysisVars
    /\ UNCHANGED sectionVars
    /\ UNCHANGED bridgeVars
    /\ UNCHANGED normVars
    /\ first_corpus' = IF run = 1 THEN scraped_data ELSE first_corpus
    /\ UNCHANGED <<run, sleeps>>
    /\ UNCHANGED summary_data
    /\ UNCHANGED translateVars

(***************************************************************************)
(* The job: collect_university_info after crawl_website has returned.      *)
(***************************************************************************)
\* subsections of the sections configuration the job runs with
total_subsections == 2

SummaryOutcomes == {"ok", "raise"}

\* UniversityInfoAgent.collect_university_info from the return of
\* crawl_website on: one analyze_section_pages call per subsection, then the
\* summary call inside try/except
CollectFinish ==
    /\ kind = "browser" /\ jpc = "collecting" /\ pc = "returned"
    /\ classifyCalls' = classifyCalls + total_subsections
    /\ summaryCalls' = summaryCalls + 1
    /\ \E outcome \in SummaryOutcomes :
          traditional_analysis' =
              IF outcome = "ok" THEN "summary"
              ELSE "Traditional AI analysis failed"
    /\ jpc' = "returned"
    /\ UNCHANGED crawlVars
    /\ UNCHANGED analysisVars
    /\ UNCHANGED sectionVars
    /\ UNCHANGED bridgeVars
    /\ UNCHANGED normVars
    /\ UNCHANGED callVars
    /\ UNCHANGED summary_data
    /\ UNCHANGED translateVars

\* SimpleUniversityInfoAgent.collect_university_info from the return of
\* crawl_website on: the summary call, outside any try
SimpleCollectFinish ==
    /\ kind = "simple" /\ jpc = "collecting" /\ pc = "returned"
    /\ summaryCalls' = summaryCalls + 1
    /\ \E outcome \in SummaryOutcomes :
          IF outcome = "ok"
          THEN /\ traditional_analysis' = "summary"
               /\ jpc' = "returned"
          ELSE /\ jpc' = "raised"
               /\ UNCHANGED traditional_analysis
    /\ UNCHANGED classifyCalls
    /\ UNCHANGED crawlVars
    /\ UNCHANGED analysisVars
    /\ UNCHANGED sectionVars
    /\ UNCHANGED bridgeVars
    /\ UNCHANGED normVars
    /\ UNCHANGED callVars
    /\ UNCHANGED summary_data
    /\ UNCHANGED translateVars

\* the row display_results writes for a page
summary_row(page) ==
    [title |-> Get(page, "title", ""), url |-> Get(page, "url", ""),
     word_count |-> Get(page, "word_count", 0),
     scraped_at |-> Get(page, "scraped_at", "")]

\* the loop of display_results over data['raw_data']: a row for every page
\* without the key 'error'
RECURSIVE summary_rows(_, _)
summary_rows(raw_data, i) ==
    IF i > Len(raw_data) THEN <<>>
    ELSE (IF "error" \notin DOMAIN raw_data[i]
          THEN <<summary_row(raw_data[i])>> ELSE <<>>)
         \o summary_rows(raw_data, i + 1)

\* display_results(data), CSV export for summary, on the result of a job
\* that returned; no rows, no download
DisplayResults ==
    /\ jpc = "returned" /\ ~summary_data.exported
    /\ summary_data' = [exported |-> TRUE, rows |-> summary_rows(scraped_data, 1)]
    /\ UNCHANGED crawlVars
    /\ UNCHANGED jobVars
    /\ UNCHANGED analysisVars
    /\ UNCHANGED sectionVars
    /\ UNCHANGED bridgeVars
    /\ UNCHANGED normVars
    /\ UNCHANGED callVars
    /\ UNCHANGED translateVars

\* "return self.scraped_data": the caller of crawl_website holds the list
\* object of the scraper itself, so what it sees is the current scraped_data
returned_list == scraped_data

Next ==
    \/ StartCrawl
    \/ CrawlStep
    \/ CrawlFinish
    \/ SimpleStart
    \/ SimpleStep
    \/ SimpleFinish
    \/ CollectFinish
    \/ SimpleCollectFinish
    \/ DisplayResults

Spec == Init /\ [][Next]_vars

\* every fetch and every judgment call returns: the job keeps taking steps
LiveSpec == Spec /\ WF_vars(Next)

(***************************************************************************)
(* Section Classification Engine: PageAnalystAgent.analyze_section_pages.  *)
(***************************************************************************)
\* relevance_score of a page judgment is a JSON number: the model counts it
\* in thousandths, so that 7 * Unit is 7 and 7 * Unit - 4 is 6.996
Unit == 1000

\* per-page judgments a classification response can list (JSON objects)
JudgmentPool ==
    { [page_title |-> "Home", belongs_to_subsection |-> "true",
       relevance_score |-> 5 * Unit, reasoning |-> "r1"],
      [page_title |-> "P", belongs_to_subsection |-> "true",
       relevance_score |-> 5 * Unit, reasoning |-> "r2", confidence |-> "high"],
      [page_title |-> "Q", belongs_to_subsection |-> "true",
       relevance_score |-> 9 * Unit, reasoning |-> "r3"],
      [page_title |-> "P", belongs_to_subsection |-> "false",
       relevance_score |-> 8 * Unit, reasoning |-> "r4"],
      [page_title |-> "Home", belongs_to_subsection |-> "true",
       relevance_score |-> 2 * Unit, reasoning |-> "r5"],
      [belongs_to_subsection |-> "true", relevance_score |-> 7 * Unit] }

\* variant of the lookup that takes the last page with the title
find_last_page(all_pages, page_analysis, i) ==
    IF \E k \in i..Len(all_pages) :
          Get(all_pages[k], "title", "None") = Get(page_analysis, "page_title", "None")
    THEN CHOOSE k \in i..Len(all_pages) :
            /\ Get(all_pages[k], "title", "None") = Get(page_analysis, "page_title", "None")
            /\ \A m \in (k + 1)..Len(all_pages) :
                  Get(all_pages[m], "title", "None") # Get(page_analysis, "page_title", "None")
    ELSE 0

\* "for page in all_pages: if page.get('title') == page_analysis.get('page_title')":
\* index of the first such page, 0 if the loop ends without a break
RECURSIVE find_original_page(_, _, _)
find_original_page(all_pages, page_analysis, i) ==
    IF i > Len(all_pages) THEN 0
    ELSE IF Get(all_pages[i], "title", "None") = Get(page_analysis, "page_title", "None")
         THEN i
         ELSE find_original_page(all_pages, page_analysis, i + 1)

\* the entry appended to relevant_pages for a judgment and its page
PageMatch(original_page, page_analysis) ==
    [page_title |-> Get(original_page, "title", "No title"),
     url |-> Get(original_page, "actual_url", Get(original_page, "url", <<>>)),
     content |-> Get(original_page, "content", ""),
     screenshot_path |-> Get(original_page, "screenshot_path", ""),
     relevance_score |-> Get(page_analysis, "relevance_score", 0),
     word_count |-> Get(original_page, "word_count", 0),
     ai_reasoning |-> Get(page_analysis, "reasoning", ""),
     confidence |-> Get(page_analysis, "confidence", "medium")]

\* "if original_page: relevant_pages.append({...})" for the page found at index i
match_if_found(all_pages, page_analysis, i) ==
    IF i = 0 THEN <<>> ELSE <<PageMatch(all_pages[i], page_analysis)>>

\* variant of the loop body that does not look at the score
match_any_score(all_pages, page_analysis) ==
    IF Truthy(Get(page_analysis, "belongs_to_subsection", "false"))
    THEN match_if_found(all_pages, page_analysis,
                        find_original_page(all_pages, page_analysis, 1))
    ELSE <<>>

\* the body of "for page_analysis in parsed_analysis.get('relevant_pages', [])"
match_of(all_pages, page_analysis) ==
    IF Truthy(Get(page_analysis, "belongs_to_subsection", "false"))
       /\ Get(page_analysis, "relevance_score", 0) >= 3 * Unit
    THEN match_if_found(all_pages, page_analysis,
                        find_original_page(all_pages, page_analysis, 1))
    ELSE <<>>

\* that loop from judgment k on
RECURSIVE collect_matches(_, _, _)
collect_matches(all_pages, judgments, k) ==
    IF k > Len(judgments) THEN <<>>
    ELSE match_of(all_pages, judgments[k])
         \o collect_matches(all_pages, judgments, k + 1)

\* list.sort(key=relevance_score, reverse=True) is stable: an element goes
\* behind every element of the sorted list that does not score less
RECURSIVE insert_desc(_, _)
insert_desc(sorted, x) ==
    IF sorted = <<>> THEN <<x>>
    ELSE IF Head(sorted).relevance_score >= x.relevance_score
         THEN <<Head(sorted)>> \o insert_desc(Tail(sorted), x)
         ELSE <<x>> \o sorted

RECURSIVE sort_by_score(_, _)
sort_by_score(pages, n) ==
    IF n = 0 THEN <<>>
    ELSE insert_desc(sort_by_score(pages, n - 1), pages[n])

\* variant of the slice that keeps the whole list
top_all(pages) == pages

\* relevant_pages[:5]
top5(pages) == SubSeq(pages, 1, IF Len(pages) < 5 THEN Len(pages) ELSE 5)

\* "relevant_pages.sort(...); return relevant_pages[:5]"
sorted_top5(pages) == top5(sort_by_score(pages, Len(pages)))

\* PageAnalystAgent.analyze_section_pages(section, subsection, all_pages),
\* given the response of its one judgment call
analyze_section_pages(all_pages, resp) ==
    IF resp.kind \in {"raise", "garbled", "nondict"} THEN <<>>
    ELSE sorted_top5(collect_matches(all_pages,
                         Get(resp, "relevant_pages", <<>>), 1))

\* a corpus handed to the classification: a crawl result with an error
\* record and with two pages that share a title
CorpusMixed ==
    << PageRecord(U_root, Doc("Home", 2, <<>>), <<>>),
       ErrorRecord(U_r),
       PageRecord(U_p, Doc("P", 3, <<>>), <<>>),
       PageRecord(U_q, Doc("P", 1, <<>>), <<>>) >>

Corpora == {CorpusMixed}

(***************************************************************************)
(* analyze_section_pages on its own: a corpus, a response of the judgment  *)
(* source, one call.                                                       *)
(***************************************************************************)
InitAnalysis ==
    /\ kind = "browser" /\ enable_link_filtering = TRUE /\ siteId = 1
    /\ start_url = U_root /\ max_pages = 0 /\ pc = "idle"
    /\ visited_urls = {} /\ scraped_data = <<>> /\ urls_to_visit = <<>>
    /\ handles = NoHandles /\ closeCalls = 0 /\ appended = <<>>
    /\ lastRaw = <<>> /\ lastResp = <<>> /\ lastFiltered = <<>>
    /\ lastFetch = "none"
    /\ jpc = "direct" /\ classifyCalls = 0 /\ summaryCalls = 0
    /\ traditional_analysis = "none"
    /\ corpus \in Corpora
    /\ response \in {[kind |-> "raise"], [kind |-> "garbled"], [kind |-> "nondict"],
                     [kind |-> "json"],
                     [kind |-> "json", relevant_pages |-> <<>>]}
    /\ returned_pages = <<>>
    /\ apc = "input"
    /\ sections_config = <<>>
    /\ sub_responses = <<>>
    /\ section_analysis = <<>>
    /\ spc = "off"
    /\ caller = "off" /\ threads = <<>> /\ calls = <<>> /\ store_writes = 0
    /\ input_url = <<>> /\ once = <<>> /\ twice = <<>> /\ npc = "off"
    /\ summary_data = [exported |-> FALSE]
    /\ run = 0 /\ first_corpus = <<>> /\ sleeps = 0
    /\ translator = FALSE /\ cache = <<>> /\ translations = 0
    /\ last = [op |-> "none"]

\* the judgment source lists one more page in its response
AddJudgment ==
    /\ apc = "input" /\ response.kind = "json"
    /\ "relevant_pages" \in DOMAIN response
    /\ Len(response.relevant_pages) < MaxJudgments
    /\ \E j \in JudgmentPool :
          response' = [response EXCEPT !.relevant_pages = Append(@, j)]
    /\ UNCHANGED <<corpus, returned_pages, apc>>
    /\ UNCHANGED crawlVars
    /\ UNCHANGED jobVars
    /\ UNCHANGED sectionVars
    /\ UNCHANGED bridgeVars
    /\ UNCHANGED normVars
    /\ UNCHANGED callVars
    /\ UNCHANGED summary_data
    /\ UNCHANGED translateVars

\* PageAnalystAgent.analyze_section_pages returns
Analyze ==
    /\ apc = "input"
    /\ returned_pages' = analyze_section_pages(corpus, response)
    /\ apc' = "called"
    /\ UNCHANGED <<corpus, response>>
    /\ UNCHANGED crawlVars
    /\ UNCHANGED jobVars
    /\ UNCHANGED sectionVars
    /\ UNCHANGED bridgeVars
    /\ UNCHANGED normVars
    /\ UNCHANGED callVars
    /\ UNCHANGED summary_data
    /\ UNCHANGED translateVars

NextAnalysis ==
    \/ AddJudgment
    \/ Analyze

SpecAnalysis == InitAnalysis /\ [][NextAnalysis]_vars

(***************************************************************************)
(* Section Classification Engine:                                          *)
(* SectionBasedAnalyzer.analyze_content_for_sections.                      *)
(***************************************************************************)
Sub(name) == [subsection_name |-> name, subsection_definition |-> name]

\* a taxonomy as load_sections_config returns it: two subsections, one
\* subsection, and a section without the 'subsection' key
Taxonomy ==
    << [section_name |-> "S1", section_definition |-> "d1",
        subsection |-> <<Sub("a"), Sub("b")>>],
       [section_name |-> "S2", section_definition |-> "d2",
        subsection |-> <<Sub("c")>>],
       [section_name |-> "S3", section_definition |-> "d3"] >>

\* ... and what it returns when the file is missing
Taxonomies == {Taxonomy, <<>>}

Judgment(title, score) ==
    [page_title |-> title, belongs_to_subsection |-> "true",
     relevance_score |-> score, reasoning |-> "r"]

\* responses of the classification call for one subsection
SectionResponses ==
    { [kind |-> "raise"], [kind |-> "garbled"],
      [kind |-> "json", relevant_pages |-> <<Judgment("Home", 7 * Unit)>>],
      [kind |-> "json", relevant_pages |-> <<Judgment("P", 7 * Unit - 4)>>],
      [kind |-> "json", relevant_pages |-> <<Judgment("P", 7 * Unit - 10)>>],
      [kind |-> "json", relevant_pages |-> <<Judgment("P", 4 * Unit - 4)>>],
      [kind |-> "json", relevant_pages |->
           <<Judgment("P", 7 * Unit), Judgment("Home", 8 * Unit)>>] }

\* section.get('subsection', [])
subsections_of(section) == Get(section, "subsection", <<>>)

\* judgment calls made before the loop reaches section s
RECURSIVE calls_before(_, _)
calls_before(config, s) ==
    IF s = 1 THEN 0
    ELSE calls_before(config, s - 1) + Len(subsections_of(config[s - 1]))

\* total_subsections of analyze_content_for_sections
count_subsections(config) == calls_before(config, Len(config) + 1)

\* the entry appended to subsections
subsection_result(subsection_config, relevant_pages) ==
    [subsection_name |-> subsection_config.subsection_name,
     subsection_definition |-> subsection_config.subsection_definition,
     relevant_pages |-> relevant_pages]

\* variant of the loop that a failed call ends: the subsections from the
\* first failed call on are not evaluated
subsection_results_abort(section, all_pages, resps, offset) ==
    [k \in {j \in 1..Len(subsections_of(section)) :
                \A i \in 1..j : resps[offset + i].kind = "json"} |->
        subsection_result(subsections_of(section)[k],
                          analyze_section_pages(all_pages, resps[offset + k]))]

\* the loop over the subsections of one section; resps[offset + k] is the
\* response of the call for its k-th subsection
subsection_results(section, all_pages, resps, offset) ==
    [k \in 1..Len(subsections_of(section)) |->
        subsection_result(subsections_of(section)[k],
                          analyze_section_pages(all_pages, resps[offset + k]))]

\* sum(len(subsection.get('relevant_pages', [])) for subsection in subsections)
RECURSIVE total_pages(_, _)
total_pages(subsections, k) ==
    IF k > Len(subsections) THEN 0
    ELSE Len(subsections[k].relevant_pages) + total_pages(subsections, k + 1)

\* sum of page.get('relevance_score', 0) over a list of pages
RECURSIVE sum_scores(_, _)
sum_scores(pages, k) ==
    IF k > Len(pages) THEN 0
    ELSE Get(pages[k], "relevance_score", 0) + sum_scores(pages, k + 1)

\* sum(all_scores)
RECURSIVE sum_all_scores(_, _)
sum_all_scores(subsections, k) ==
    IF k > Len(subsections) THEN 0
    ELSE sum_scores(subsections[k].relevant_pages, 1)
         + sum_all_scores(subsections, k + 1)

\* variant of the rounding that cuts the digits after the second decimal
round2_floor(sum, n, tie_up) ==
    ((sum * 100) \div (n * Unit)) * (Unit \div 100)

\* round(sum / n, 2), in thousandths: the nearest hundredth; when sum / n
\* lies midway between two hundredths the binary value of the quotient
\* decides, tie_up tells which way
round2(sum, n, tie_up) ==
    IF 2 * ((sum * 100) % (n * Unit)) > n * Unit
       \/ (2 * ((sum * 100) % (n * Unit)) = n * Unit /\ tie_up)
    THEN ((sum * 100) \div (n * Unit) + 1) * (Unit \div 100)
    ELSE ((sum * 100) \div (n * Unit)) * (Unit \div 100)

\* 'average_relevance_score': round(avg_relevance, 2)
average_relevance_score(sum, n, tie_up) ==
    IF n = 0 THEN 0 ELSE round2(sum, n, tie_up)

\* 'excellent' if avg_relevance >= 7 else 'good' if avg_relevance >= 4 else
\* 'limited', for avg_relevance = sum / n (0 when n = 0)
coverage_quality(sum, n) ==
    IF n > 0 /\ sum >= 7 * Unit * n THEN "excellent"
    ELSE IF n > 0 /\ sum >= 4 * Unit * n THEN "good"
    ELSE "limited"

\* the entry appended to sections
section_result(section, subsections, tie_up) ==
    [section_name |-> section.section_name,
     section_definition |-> section.section_definition,
     subsections |-> subsections,
     total_relevant_pages |-> total_pages(subsections, 1),
     average_relevance_score |->
         average_relevance_score(sum_all_scores(subsections, 1),
                                 total_pages(subsections, 1), tie_up),
     coverage_quality |->
         coverage_quality(sum_all_scores(subsections, 1),
                          total_pages(subsections, 1))]

\* SectionBasedAnalyzer.analyze_content_for_sections(scraped_data, ...)
analyze_content_for_sections(scraped, config, resps, ties) ==
    [organization_name |-> "",
     sections |->
         [s \in 1..Len(config) |->
             section_result(config[s],
                 subsection_results(config[s], scraped, resps,
                                    calls_before(config, s)),
                 ties[s])],
     total_pages_scraped |-> Len(scraped),
     analysis_timestamp |-> "ts",
     analysis_method |-> "AI Section-Centric Analyst"]

InitSections ==
    /\ kind = "browser" /\ enable_link_filtering = TRUE /\ siteId = 1
    /\ start_url = U_root /\ max_pages = 0 /\ pc = "idle"
    /\ visited_urls = {} /\ scraped_data = <<>> /\ urls_to_visit = <<>>
    /\ handles = NoHandles /\ closeCalls = 0 /\ appended = <<>>
    /\ lastRaw = <<>> /\ lastResp = <<>> /\ lastFiltered = <<>>
    /\ lastFetch = "none"
    /\ jpc = "direct" /\ classifyCalls = 0 /\ summaryCalls = 0
    /\ traditional_analysis = "none"
    /\ corpus \in Corpora
    /\ response = [kind |-> "raise"]
    /\ returned_pages = <<>>
    /\ apc = "off"
    /\ sections_config \in Taxonomies
    /\ sub_responses \in [1..count_subsections(sections_config) -> SectionResponses]
    /\ section_analysis = <<>>
    /\ spc = "input"
    /\ caller = "off" /\ threads = <<>> /\ calls = <<>> /\ store_writes = 0
    /\ input_url = <<>> /\ once = <<>> /\ twice = <<>> /\ npc = "off"
    /\ summary_data = [exported |-> FALSE]
    /\ run = 0 /\ first_corpus = <<>> /\ sleeps = 0
    /\ translator = FALSE /\ cache = <<>> /\ translations = 0
    /\ last = [op |-> "none"]

\* analyze_content_for_sections returns
AnalyzeSections ==
    /\ spc = "input"
    /\ \E ties \in [1..Len(sections_config) -> BOOLEAN] :
          section_analysis' =
              analyze_content_for_sections(corpus, sections_config,
                                           sub_responses, ties)
    /\ spc' = "called"
    /\ UNCHANGED <<sections_config, sub_responses>>
    /\ UNCHANGED crawlVars
    /\ UNCHANGED jobVars
    /\ UNCHANGED analysisVars
    /\ UNCHANGED bridgeVars
    /\ UNCHANGED normVars
    /\ UNCHANGED callVars
    /\ UNCHANGED summary_data
    /\ UNCHANGED translateVars

NextSections ==
    \/ AnalyzeSections

SpecSections == InitSections /\ [][NextSections]_vars

(***************************************************************************)
(* The bridge to the judgment source: _run_agent_in_thread of               *)
(* LinkRelevanceAgent, PageAnalystAgent and UniversityInfoAgent.  The job   *)
(* is one thread; each call starts a worker thread with its own event loop *)
(* and joins it.                                                           *)
(***************************************************************************)
MaxCalls == 3
MaxWrites == 2

\* the three callers of a bridge
Agents == {"link", "classification", "summary"}

\* result = [None], error = [None], thread = threading.Thread(target=run_agent)
NewThread(agent) ==
    [agent |-> agent, pos |-> "started", loop |-> "none",
     result |-> "None", error |-> "None"]

\* the workers inside Runner.run_sync
in_flight == {t \in 1..Len(threads) : threads[t].pos = "running"}

\* variant of thread.join() that does not wait for the worker
join_nowait(thread) == TRUE

\* thread.join() returns once run_agent has returned
join_returns(thread) == thread.pos = "finished"

InitBridge ==
    /\ kind = "browser" /\ enable_link_filtering = TRUE /\ siteId = 1
    /\ start_url = U_root /\ max_pages = 0 /\ pc = "idle"
    /\ visited_urls = {} /\ scraped_data = <<>> /\ urls_to_visit = <<>>
    /\ handles = NoHandles /\ closeCalls = 0 /\ appended = <<>>
    /\ lastRaw = <<>> /\ lastResp = <<>> /\ lastFiltered = <<>>
    /\ lastFetch = "none"
    /\ jpc = "direct" /\ classifyCalls = 0 /\ summaryCalls = 0
    /\ traditional_analysis = "none"
    /\ corpus = <<>>
    /\ response = [kind |-> "raise"]
    /\ returned_pages = <<>>
    /\ apc = "off"
    /\ sections_config = <<>>
    /\ sub_responses = <<>>
    /\ section_analysis = <<>>
    /\ spc = "off"
    /\ caller = "ready" /\ threads = <<>> /\ calls = <<>> /\ store_writes = 0
    /\ input_url = <<>> /\ once = <<>> /\ twice = <<>> /\ npc = "off"
    /\ summary_data = [exported |-> FALSE]
    /\ run = 0 /\ first_corpus = <<>> /\ sleeps = 0
    /\ translator = FALSE /\ cache = <<>> /\ translations = 0
    /\ last = [op |-> "none"]

\* _run_agent_in_thread up to thread.start(); the caller goes on to join
CallAgent ==
    /\ caller = "ready" /\ Len(threads) < MaxCalls
    /\ \E agent \in Agents : threads' = Append(threads, NewThread(agent))
    /\ caller' = "joining"
    /\ UNCHANGED <<calls, store_writes>>
    /\ UNCHANGED <<crawlVars, jobVars, analysisVars, sectionVars, normVars,
                   summary_data, callVars, translateVars>>

\* run_agent: asyncio.new_event_loop(), set_event_loop; when that raises the
\* except branch stores the error and finally finds no loop to close
NewLoop ==
    /\ \E t \in 1..Len(threads) :
          /\ threads[t].pos = "started"
          /\ \E made \in BOOLEAN :
                threads' =
                    [threads EXCEPT ![t] =
                        IF made
                        THEN [@ EXCEPT !.loop = "open", !.pos = "loop_set"]
                        ELSE [@ EXCEPT !.error = "exc", !.pos = "finished"]]
    /\ UNCHANGED <<caller, calls, store_writes>>
    /\ UNCHANGED <<crawlVars, jobVars, analysisVars, sectionVars, normVars,
                   summary_data, callVars, translateVars>>

\* run_agent enters Runner.run_sync(self.agent, prompt)
RunSyncEnter ==
    /\ \E t \in 1..Len(threads) :
          /\ threads[t].pos = "loop_set"
          /\ threads' = [threads EXCEPT ![t].pos = "running"]
    /\ UNCHANGED <<caller, calls, store_writes>>
    /\ UNCHANGED <<crawlVars, jobVars, analysisVars, sectionVars, normVars,
                   summary_data, callVars, translateVars>>

\* Runner.run_sync returns (result[0] = ...) or raises (error[0] = e)
RunSyncLeave ==
    /\ \E t \in 1..Len(threads) :
          /\ threads[t].pos = "running"
          /\ \E raised \in BOOLEAN :
                threads' =
                    [threads EXCEPT ![t] =
                        IF raised
                        THEN [@ EXCEPT !.error = "exc", !.pos = "ran"]
                        ELSE [@ EXCEPT !.result = "output", !.pos = "ran"]]
    /\ UNCHANGED <<caller, calls, store_writes>>
    /\ UNCHANGED <<crawlVars, jobVars, analysisVars, sectionVars, normVars,
                   summary_data, callVars, translateVars>>

\* finally: loop.close(); run_agent returns
CloseLoop ==
    /\ \E t \in 1..Len(threads) :
          /\ threads[t].pos = "ran"
          /\ threads' = [threads EXCEPT ![t] =
                            [@ EXCEPT !.loop = "closed", !.pos = "finished"]]
    /\ UNCHANGED <<caller, calls, store_writes>>
    /\ UNCHANGED <<crawlVars, jobVars, analysisVars, sectionVars, normVars,
                   summary_data, callVars, translateVars>>

\* thread.join() returns; "if error[0]: raise error[0]; return result[0]"
JoinReturn ==
    /\ caller = "joining"
    /\ join_returns(threads[Len(threads)])
    /\ calls' = Append(calls,
                       IF threads[Len(threads)].error # "None"
                       THEN [raised |-> threads[Len(threads)].error]
                       ELSE [returned |-> threads[Len(threads)].result])
    /\ caller' = "ready"
    /\ UNCHANGED <<threads, store_writes>>
    /\ UNCHANGED <<crawlVars, jobVars, analysisVars, sectionVars, normVars,
                   summary_data, callVars, translateVars>>

\* the caller, between two calls, writes to the visited set, the frontier
\* or the corpus (crawl_website)
StoreWrite ==
    /\ caller = "ready" /\ store_writes < MaxWrites
    /\ store_writes' = store_writes + 1
    /\ UNCHANGED <<caller, threads, calls>>
    /\ UNCHANGED <<crawlVars, jobVars, analysisVars, sectionVars, normVars,
                   summary_data, callVars, translateVars>>

NextBridge ==
    \/ CallAgent
    \/ NewLoop
    \/ RunSyncEnter
    \/ RunSyncLeave
    \/ CloseLoop
    \/ JoinReturn
    \/ StoreWrite

SpecBridge == InitBridge /\ [][NextBridge]_vars

(***************************************************************************)
(* URL Normalizer on arbitrary input.                                      *)
(***************************************************************************)
MaxBody == 2
MaxPad == 1

\* strings of blanks
Blanks(n) == [i \in 1..n |-> " "]

\* what an input may start with: nothing, a scheme, and near misses of one
Prefixes ==
    { <<>>, S_http, S_https,
      <<"H","T","T","P",":","/","/">>, <<"h","t","t","p",":","/">>,
      <<"f","t","p",":","/","/">> }

BodyChars == {"a", "/", " ", "h"}

Bodies == UNION {[1..n -> BodyChars] : n \in 0..MaxBody}

\* arguments of normalize_url: empty, blank, without and with a scheme,
\* padded with blanks or not
Inputs ==
    { Blanks(l) \o p \o b \o Blanks(r) :
        l \in 0..MaxPad, r \in 0..MaxPad, p \in Prefixes, b \in Bodies }

InitNormalize ==
    /\ kind = "browser" /\ enable_link_filtering = TRUE /\ siteId = 1
    /\ start_url = U_root /\ max_pages = 0 /\ pc = "idle"
    /\ visited_urls = {} /\ scraped_data = <<>> /\ urls_to_visit = <<>>
    /\ handles = NoHandles /\ closeCalls = 0 /\ appended = <<>>
    /\ lastRaw = <<>> /\ lastResp = <<>> /\ lastFiltered = <<>>
    /\ lastFetch = "none"
    /\ jpc = "direct" /\ classifyCalls = 0 /\ summaryCalls = 0
    /\ traditional_analysis = "none"
    /\ corpus = <<>>
    /\ response = [kind |-> "raise"]
    /\ returned_pages = <<>>
    /\ apc = "off"
    /\ sections_config = <<>>
    /\ sub_responses = <<>>
    /\ section_analysis = <<>>
    /\ spc = "off"
    /\ caller = "off" /\ threads = <<>> /\ calls = <<>> /\ store_writes = 0
    /\ input_url \in Inputs
    /\ once = <<>> /\ twice = <<>> /\ npc = "input"
    /\ summary_data = [exported |-> FALSE]
    /\ run = 0 /\ first_corpus = <<>> /\ sleeps = 0
    /\ translator = FALSE /\ cache = <<>> /\ translations = 0
    /\ last = [op |-> "none"]

\* normalize_url(url)
NormalizeOnce ==
    /\ npc = "input"
    /\ once' = normalize_url(input_url)
    /\ npc' = "once"
    /\ UNCHANGED <<input_url, twice>>
    /\ UNCHANGED <<crawlVars, jobVars, analysisVars, sectionVars, bridgeVars,
                   summary_data, callVars, translateVars>>

\* normalize_url applied to its own result
NormalizeAgain ==
    /\ npc = "once"
    /\ twice' = normalize_url(once)
    /\ npc' = "twice"
    /\ UNCHANGED <<input_url, once>>
    /\ UNCHANGED <<crawlVars, jobVars, analysisVars, sectionVars, bridgeVars,
                   summary_data, callVars, translateVars>>

NextNormalize ==
    \/ NormalizeOnce
    \/ NormalizeAgain

SpecNormalize == InitNormalize /\ [][NextNormalize]_vars

(***************************************************************************)
(* Properties of the crawl.                                                *)
(***************************************************************************)
\* the page a history entry was queued from, as the site serves it
HrefsOf(page_url) ==
    IF Resource(page_url) \in DOMAIN Site THEN Site[Resource(page_url)].hrefs ELSE <<>>

\* C1: in every state of a crawl with budget N, |visited_urls| <= N and
\* len(scraped_data) = |visited_urls|, and no two records of the corpus were
\* fetched for the same normalized URL.
C1_BudgetAndDistinctNormalized ==
    /\ Cardinality(visited_urls) <= max_pages
    /\ Len(scraped_data) = Cardinality(visited_urls)
    /\ \A i, j \in 1..Len(scraped_data) :
          i # j => normalize_url(scraped_data[i].url) # normalize_url(scraped_data[j].url)

\* crawl_website has completed
CrawlDone == pc \in {"returned", "raised"}

\* C2: when every fetch and judgment call returns, crawl_website eventually
\* completes; when it returns, the frontier is empty or |visited_urls| = N;
\* on the single-page site with budget 5 it returns exactly 1 record and an
\* empty frontier.
C2_Completes ==
    /\ <>CrawlDone
    /\ [](pc = "returned" =>
             \/ urls_to_visit = <<>>
             \/ Cardinality(visited_urls) = max_pages)
    /\ [](pc = "returned" /\ siteId = 1 /\ max_pages = 5 =>
             Len(scraped_data) = 1 /\ urls_to_visit = <<>>)

\* C2, reached: the single-page site crawled with budget 5
C2_SinglePageReturned ==
    /\ pc = "returned" /\ siteId = 1 /\ max_pages = 5
    /\ Len(scraped_data) = 1 /\ "title" \in DOMAIN scraped_data[1]
    /\ urls_to_visit = <<>>

\* C3: the corpus lists the URLs in the order of their first append to the
\* frontier, and a page queued from page A comes after A's record.
C3_BreadthFirst ==
    /\ Len(scraped_data) <= Len(appended)
    /\ \A i \in 1..Len(scraped_data) : scraped_data[i].url = appended[i].url
    /\ \A k \in 1..Len(appended) : \A j \in 1..Len(scraped_data) :
          appended[k].from # <<>> /\ scraped_data[j].url = appended[k].url
             => \E i \in 1..(j - 1) : scraped_data[i].url = appended[k].from

\* C3, reached: on the graph site, r is found only on p, and the corpus is
\* root, p, q, r
C3_GraphCrawled ==
    /\ siteId = 2 /\ Len(scraped_data) = 4
    /\ scraped_data[2].url = U_p /\ scraped_data[3].url = U_q
    /\ scraped_data[4].url = U_r
    /\ \E k \in 1..Len(appended) : appended[k].url = U_r /\ appended[k].from = U_p

\* a link that is out of scope for the page it stands on: another network
\* location, a rejected file type, or a mailto:/tel:/javascript: target
OutOfScope(link, page_url) ==
    \/ Netloc(link) # Netloc(page_url)
    \/ \E ext \in BrowserExts : Contains(Lower(link), ext)
    \/ \E prefix \in {<<"m","a","i","l","t","o",":">>, <<"t","e","l",":">>,
                      <<"j","a","v","a","s","c","r","i","p","t",":">>} :
          StartsWith(Lower(link), prefix)

\* C4: a link that is out of scope for its page is never appended to the
\* frontier, by either crawler, with or without link filtering.
C4_OutOfScopeNeverQueued ==
    \A k \in 1..Len(appended) :
        appended[k].from # <<>> => ~OutOfScope(appended[k].link, appended[k].from)

\* C5: a fragment-only href of a fetched page is never appended to the
\* frontier.
C5_FragmentNeverQueued ==
    \A k \in 1..Len(appended) :
        appended[k].from # <<>> =>
            ~ \E i \in 1..Len(HrefsOf(appended[k].from)) :
                 /\ HrefsOf(appended[k].from)[i][1] = "#"
                 /\ UrlJoin(appended[k].from, HrefsOf(appended[k].from)[i])
                       = appended[k].link

\* the page scraped last was loaded by the browser crawler with filtering on
FilteredPage ==
    kind = "browser" /\ enable_link_filtering /\ lastFetch = "ok"

\* position of the entry the filter kept for link i of the page, 0 if none
Kept(i) ==
    IF \E k \in 1..Len(lastFiltered) : lastFiltered[k].url = lastRaw[i]
    THEN CHOOSE k \in 1..Len(lastFiltered) : lastFiltered[k].url = lastRaw[i]
    ELSE 0

\* C6: a link whose judgment call raises or returns unparseable text is
\* admitted with is_worth_checking true, score 5 and a reasoning noting the
\* failure; the other links of the page get their own verdict, the admitted
\* links are the record's links, and the record carries no error.
C6_FailOpen ==
    FilteredPage =>
        /\ \A i \in 1..Len(lastRaw) :
              lastResp[i].kind \in {"raise", "garbled", "nondict"} =>
                 /\ Kept(i) # 0
                 /\ lastFiltered[Kept(i)].is_worth_checking = "true"
                 /\ lastFiltered[Kept(i)].relevance_score = 5
                 /\ lastFiltered[Kept(i)].reasoning \in
                       {"Error during evaluation", "Could not parse AI response"}
        /\ \A i \in 1..Len(lastRaw) :
              lastResp[i] = [kind |-> "json", is_worth_checking |-> "true",
                             relevance_score |-> 8] =>
                 Kept(i) # 0 /\ lastFiltered[Kept(i)].relevance_score = 8
        /\ "error" \notin DOMAIN scraped_data[Len(scraped_data)]
        /\ scraped_data[Len(scraped_data)].links = urls_of(lastFiltered)

\* C6, reached: a page with two links, the first judgment call raises, the
\* second answers garbled text, both links are in the record
C6_FailedCallsAdmitted ==
    /\ FilteredPage /\ Len(lastRaw) = 2
    /\ lastResp[1].kind = "raise" /\ lastResp[2].kind = "garbled"
    /\ scraped_data[Len(scraped_data)].links = lastRaw

\* C7: with filtering on, a link with a well-formed judgment is in the filter
\* output iff the judgment's is_worth_checking is true; false or an absent
\* field rejects it.
C7_AdmittedIffWorth ==
    FilteredPage =>
        \A i \in 1..Len(lastRaw) :
            lastResp[i].kind = "json" =>
               (Kept(i) # 0 <=>
                   /\ "is_worth_checking" \in DOMAIN lastResp[i]
                   /\ lastResp[i].is_worth_checking = "true")

\* C7, reached: a page with two links, one judged worth checking and kept,
\* one judged without the field and dropped
C7_OneKeptOneDropped ==
    /\ FilteredPage /\ Len(lastRaw) = 2
    /\ lastResp[1].kind = "json" /\ lastResp[2].kind = "json"
    /\ "is_worth_checking" \notin DOMAIN lastResp[1]
    /\ Get(lastResp[2], "is_worth_checking", "false") = "true"
    /\ urls_of(lastFiltered) = <<lastRaw[2]>>

C9_StartupFailure ==
    pc = "raised" =>
        /\ closeCalls >= 1
        /\ \A h \in DOMAIN handles : handles[h] # "live"
        /\ scraped_data = <<>>
        /\ jpc \in {"direct", "raised"}
        /\ classifyCalls = 0 /\ summaryCalls = 0
        /\ traditional_analysis = "none"

\* C9, reached: the browser launch failed after playwright had started,
\* inside collect_university_info
C9_LaunchFailed ==
    /\ pc = "raised" /\ jpc = "raised"
    /\ handles.playwright = "closed" /\ handles.browser = "none"

\* C23: the delays of a crawl are as many as its fetches, failed ones
\* included: every step that appends a record sleeps once before the next
\* URL is taken, and no other step sleeps.
C23_OneDelayPerFetch ==
    /\ [](pc \in {"loop", "returned"} => sleeps = Len(scraped_data))
    /\ [][Len(scraped_data') = Len(scraped_data) + 1 => sleeps' = sleeps + 1]_vars
    /\ [][sleeps' > sleeps => Len(scraped_data') = Len(scraped_data) + 1]_vars

\* a crawl that returned three records, the second an error record, after
\* three delays
C23_ThreeDelays ==
    /\ kind = "browser" /\ pc = "returned" /\ run = 1
    /\ Len(scraped_data) = 3 /\ sleeps = 3
    /\ "error" \in DOMAIN scraped_data[2]

\* C25: in the loop the frontier holds no URL twice and no visited URL, and
\* every iteration fetches: it adds one URL to visited_urls and one record.
C25_FrontierDistinctUnvisited ==
    /\ [](pc = "loop" =>
             /\ \A i, j \in 1..Len(urls_to_visit) :
                   i # j => urls_to_visit[i] # urls_to_visit[j]
             /\ \A i \in 1..Len(urls_to_visit) :
                   urls_to_visit[i] \notin visited_urls)
    /\ [][pc = "loop" /\ pc' = "loop" =>
             /\ Len(scraped_data') = Len(scraped_data) + 1
             /\ Cardinality(visited_urls') = Cardinality(visited_urls) + 1
             /\ scraped_data'[Len(scraped_data')].url = Head(urls_to_visit)]_vars

\* on the graph site, after root and p: p links back to the visited root and
\* to r; the frontier is q, r
C25_BackLinkNotQueued ==
    /\ pc = "loop" /\ siteId = 2 /\ kind = "browser"
    /\ visited_urls = {U_root, U_p}
    /\ "title" \in DOMAIN scraped_data[2]
    /\ urls_to_visit = <<U_q, U_r>>

\* C27: while crawl_website of a WebsiteScraper is in its loop the browser
\* context is live, in every call on the instance.
C27_LiveFetchLayer ==
    kind = "browser" /\ pc = "loop" => handles.context = "live"

\* C28: the list the first crawl_website call returned holds the records it
\* held when it was returned, whatever is done with the scraper afterwards.
C28_ReturnedCorpusKept ==
    run >= 2 \/ (run = 1 /\ pc = "returned") => returned_list = first_corpus

(***************************************************************************)
(* Properties of the classification.                                       *)
(***************************************************************************)
\* C10: the list analyze_section_pages returns has at most 5 entries, in
\* non-increasing order of relevance_score.
C10_TopFiveSorted ==
    apc = "called" =>
        /\ Len(returned_pages) <= 5
        /\ \A i \in 1..(Len(returned_pages) - 1) :
              returned_pages[i].relevance_score
                 >= returned_pages[i + 1].relevance_score

\* C10, reached: six judgments are retained, the first scores 5 and a later
\* one 7; five entries are returned, from 7 down to 5
C10_SixRetained ==
    /\ apc = "called" /\ "relevant_pages" \in DOMAIN response
    /\ Len(collect_matches(corpus, response.relevant_pages, 1)) = 6
    /\ response.relevant_pages[1].relevance_score = 5 * Unit
    /\ Len(returned_pages) = 5
    /\ returned_pages[1].relevance_score = 7 * Unit
    /\ returned_pages[5].relevance_score = 5 * Unit

\* position in the corpus of the page an entry of the returned list describes
CorpusIndex(entry) ==
    CHOOSE i \in 1..Len(corpus) :
        Get(corpus[i], "actual_url", Get(corpus[i], "url", <<>>)) = entry.url

\* C11: entries of the returned list with equal relevance_score stand in
\* corpus order, whatever the order of the judgments in the response; and a
\* retained judgment the cap dropped scores no more than any returned entry
\* and, at equal score, stands no earlier in the corpus.
C11_TiesInCorpusOrder ==
    apc = "called" /\ response.kind = "json" /\ "relevant_pages" \in DOMAIN response =>
        /\ \A i, j \in 1..Len(returned_pages) :
              i < j /\ returned_pages[i].relevance_score
                          = returned_pages[j].relevance_score
                 => CorpusIndex(returned_pages[i]) <= CorpusIndex(returned_pages[j])
        /\ \A m \in Range(collect_matches(corpus, response.relevant_pages, 1)) :
              m \notin Range(returned_pages) =>
                 \A k \in 1..Len(returned_pages) :
                    /\ returned_pages[k].relevance_score >= m.relevance_score
                    /\ returned_pages[k].relevance_score = m.relevance_score
                          => CorpusIndex(returned_pages[k]) <= CorpusIndex(m)

\* C22: every entry of the returned list stems from a judgment of the
\* response that is marked as belonging to the subsection and scores at
\* least 3; no entry scores below 3 and a judgment marked as not belonging
\* yields no entry, whatever its score.
C22_BelongingAndThreshold ==
    apc = "called" /\ response.kind = "json" /\ "relevant_pages" \in DOMAIN response =>
        \A k \in 1..Len(returned_pages) :
            /\ returned_pages[k].relevance_score >= 3 * Unit
            /\ \E j \in Range(response.relevant_pages) :
                  /\ Get(j, "belongs_to_subsection", "false") = "true"
                  /\ Get(j, "relevance_score", 0) = returned_pages[k].relevance_score
                  /\ Get(j, "reasoning", "") = returned_pages[k].ai_reasoning

\* a response with a judgment that does not belong (score 8), one that
\* scores 2 and one that belongs with score 5: only the last is returned
C22_OnlyQualifiedKept ==
    /\ apc = "called" /\ response.kind = "json" /\ "relevant_pages" \in DOMAIN response
    /\ Len(response.relevant_pages) = 3
    /\ \E j \in Range(response.relevant_pages) :
          Get(j, "belongs_to_subsection", "false") = "false"
    /\ \E j \in Range(response.relevant_pages) :
          Get(j, "relevance_score", 0) = 2 * Unit
    /\ Len(returned_pages) = 1
    /\ returned_pages[1].relevance_score = 5 * Unit

\* the first page of the corpus whose title is the judgment's page title, 0
\* if there is none
FirstWithTitle(j) ==
    IF \E i \in 1..Len(corpus) :
          Get(corpus[i], "title", "None") = Get(j, "page_title", "None")
    THEN CHOOSE i \in 1..Len(corpus) :
            /\ Get(corpus[i], "title", "None") = Get(j, "page_title", "None")
            /\ \A m \in 1..(i - 1) :
                  Get(corpus[m], "title", "None") # Get(j, "page_title", "None")
    ELSE 0

\* C24: every entry of the returned list describes the first page in corpus
\* order whose title is the page title of its judgment; a judgment whose
\* title no page has yields no entry; entries are not de-duplicated.
C24_FirstPageWithTitle ==
    apc = "called" /\ response.kind = "json" /\ "relevant_pages" \in DOMAIN response =>
        \A k \in 1..Len(returned_pages) :
            \E j \in Range(response.relevant_pages) :
                /\ FirstWithTitle(j) # 0
                /\ returned_pages[k].relevance_score = Get(j, "relevance_score", 0)
                /\ returned_pages[k].ai_reasoning = Get(j, "reasoning", "")
                /\ returned_pages[k].url
                      = Get(corpus[FirstWithTitle(j)], "actual_url",
                            Get(corpus[FirstWithTitle(j)], "url", <<>>))
                /\ returned_pages[k].word_count
                      = Get(corpus[FirstWithTitle(j)], "word_count", 0)

\* the response repeats the judgment for title "P", which two pages carry,
\* and has a judgment for a title no page carries: the first page titled P
\* is returned twice, nothing for the unknown title
C24_SamePageTwice ==
    /\ apc = "called" /\ response.kind = "json" /\ "relevant_pages" \in DOMAIN response
    /\ Len(response.relevant_pages) = 3
    /\ \E j \in Range(response.relevant_pages) : Get(j, "page_title", "None") = "Q"
    /\ Len(returned_pages) = 2
    /\ returned_pages[1].url = U_p
    /\ returned_pages[2].url = U_p

\* C26: no entry of the returned list describes an error record of the
\* corpus, also when its judgment carries no page title.
C26_NoErrorRecordMatched ==
    apc = "called" =>
        \A k \in 1..Len(returned_pages) :
            \A i \in 1..Len(corpus) :
                "error" \in DOMAIN corpus[i] =>
                    returned_pages[k].url # corpus[i].url

(***************************************************************************)
(* Properties of the section analysis.                                     *)
(***************************************************************************)
\* the response of the call for subsection k of section s
ResponseFor(s, k) == sub_responses[calls_before(sections_config, s) + k]

\* C12: a classification call that raises or returns text without a JSON
\* object yields no matches for its subsection only: the result has every
\* section of the taxonomy in order, every section has all its subsections
\* in order, and every subsection whose call succeeded carries the matches
\* of its own response.
C12_FailedJudgmentContained ==
    spc = "called" =>
        /\ Len(section_analysis.sections) = Len(sections_config)
        /\ \A s \in 1..Len(sections_config) :
              /\ section_analysis.sections[s].section_name
                    = sections_config[s].section_name
              /\ Len(section_analysis.sections[s].subsections)
                    = Len(subsections_of(sections_config[s]))
              /\ \A k \in 1..Len(subsections_of(sections_config[s])) :
                    /\ k \in DOMAIN section_analysis.sections[s].subsections
                    /\ section_analysis.sections[s].subsections[k].subsection_name
                          = subsections_of(sections_config[s])[k].subsection_name
                    /\ ResponseFor(s, k).kind \in {"raise", "garbled"}
                          => section_analysis.sections[s].subsections[k].relevant_pages = <<>>
                    /\ ResponseFor(s, k).kind = "json"
                          => section_analysis.sections[s].subsections[k].relevant_pages
                                = sorted_top5(collect_matches(corpus,
                                      ResponseFor(s, k).relevant_pages, 1))

\* a run where the first call raised, the second succeeded with a match and
\* the third returned unparseable text
C12_FailureThenMatches ==
    /\ spc = "called"
    /\ Len(sections_config) = 3
    /\ sub_responses[1].kind = "raise"
    /\ sub_responses[2].kind = "json"
    /\ sub_responses[3].kind = "garbled"
    /\ section_analysis.sections[1].subsections[1].relevant_pages = <<>>
    /\ Len(section_analysis.sections[1].subsections[2].relevant_pages) = 2
    /\ section_analysis.sections[2].subsections[1].relevant_pages = <<>>

\* C13: the coverage label of every section agrees with the mean the section
\* reports: 'excellent' exactly when average_relevance_score is at least 7,
\* 'good' exactly when it is at least 4 and below 7, 'limited' otherwise; a
\* section without matched pages reports 0 and 'limited'.
C13_LabelAgreesWithReportedMean ==
    spc = "called" =>
        \A s \in 1..Len(section_analysis.sections) :
            /\ section_analysis.sections[s].coverage_quality = "excellent"
                  <=> section_analysis.sections[s].average_relevance_score >= 7 * Unit
            /\ section_analysis.sections[s].coverage_quality = "good"
                  <=> /\ section_analysis.sections[s].average_relevance_score >= 4 * Unit
                      /\ section_analysis.sections[s].average_relevance_score < 7 * Unit
            /\ section_analysis.sections[s].coverage_quality = "limited"
                  <=> section_analysis.sections[s].average_relevance_score < 4 * Unit
            /\ section_analysis.sections[s].total_relevant_pages = 0
                  => /\ section_analysis.sections[s].average_relevance_score = 0
                     /\ section_analysis.sections[s].coverage_quality = "limited"

\* the scores of the matches of section s, summed over its subsections as
\* the responses determine them
ScoreSum(s) ==
    sum_all_scores(section_analysis.sections[s].subsections, 1)

TaxonomyOrder ==
    /\ Len(section_analysis.sections) = Len(sections_config)
    /\ \A s \in 1..Len(sections_config) :
          /\ section_analysis.sections[s].section_name
                = sections_config[s].section_name
          /\ [k \in 1..Len(section_analysis.sections[s].subsections) |->
                 section_analysis.sections[s].subsections[k].subsection_name]
             = [k \in 1..Len(subsections_of(sections_config[s])) |->
                 subsections_of(sections_config[s])[k].subsection_name]

TotalsAreSums ==
    \A s \in 1..Len(section_analysis.sections) :
        section_analysis.sections[s].total_relevant_pages
            = total_pages(section_analysis.sections[s].subsections, 1)

\* C14 (as stated): total_relevant_pages is the sum of the lengths of the
\* subsections' relevant_pages, average_relevance_score is the arithmetic
\* mean of the scores of all matches of the section (0 when there are none),
\* and sections and subsections are in taxonomy order.
C14_MeanIsArithmeticMean ==
    spc = "called" =>
        /\ TaxonomyOrder
        /\ TotalsAreSums
        /\ \A s \in 1..Len(section_analysis.sections) :
              section_analysis.sections[s].average_relevance_score
                    * section_analysis.sections[s].total_relevant_pages
                 = ScoreSum(s)

\* C14 (amended): as above, but average_relevance_score is the arithmetic
\* mean rounded to two decimals: a whole number of hundredths at most half
\* a hundredth away from the mean.
C14_MeanRoundedToHundredths ==
    spc = "called" =>
        /\ TaxonomyOrder
        /\ TotalsAreSums
        /\ \A s \in 1..Len(section_analysis.sections) :
              /\ section_analysis.sections[s].average_relevance_score
                    % (Unit \div 100) = 0
              /\ 2 * (section_analysis.sections[s].average_relevance_score
                        * section_analysis.sections[s].total_relevant_pages
                      - ScoreSum(s))
                    <= section_analysis.sections[s].total_relevant_pages
                          * (Unit \div 100)
              /\ 2 * (ScoreSum(s)
                      - section_analysis.sections[s].average_relevance_score
                        * section_analysis.sections[s].total_relevant_pages)
                    <= section_analysis.sections[s].total_relevant_pages
                          * (Unit \div 100)

\* a section with three matches of scores 8, 7 and 7 reports 7.33
C14_ThreeMatchesRounded ==
    /\ spc = "called"
    /\ Len(sections_config) = 3
    /\ section_analysis.sections[1].total_relevant_pages = 3
    /\ ScoreSum(1) = 22 * Unit
    /\ section_analysis.sections[1].average_relevance_score = 7330

(***************************************************************************)
(* Properties of the job.                                                  *)
(***************************************************************************)
\* C15: whatever the outcome of the summary call, a job whose crawl returned
\* and whose summary call was issued returns a result, with the summary or
\* the placeholder in the summary field; for both orchestrators.
C15_SummaryFailureContained ==
    pc = "returned" /\ summaryCalls >= 1 =>
        /\ jpc = "returned"
        /\ traditional_analysis \in {"summary", "Traditional AI analysis failed"}

C17_OneCallInFlight ==
    /\ [](Cardinality(in_flight) <= 1)
    /\ [](Cardinality({t \in 1..Len(threads) : threads[t].pos # "finished"}) <= 1)
    /\ [](caller = "ready" =>
             \A t \in 1..Len(threads) :
                 threads[t].pos = "finished" /\ threads[t].loop # "open")
    /\ [](\A k \in 1..Len(calls) :
             calls[k] = IF threads[k].error = "exc"
                        THEN [raised |-> "exc"]
                        ELSE [returned |-> "output"])
    /\ [][in_flight # {} => store_writes' = store_writes]_vars

\* the third call is in flight after one call that raised, one that
\* returned and a write in between
C17_ThirdCallInFlight ==
    /\ Len(calls) = 2
    /\ "raised" \in DOMAIN calls[1]
    /\ "returned" \in DOMAIN calls[2]
    /\ store_writes >= 1
    /\ in_flight = {3}
    /\ caller = "joining"

(***************************************************************************)
(* Properties of the normalizer.                                           *)
(***************************************************************************)
\* C18: normalize_url(normalize_url(u)) = normalize_url(u) for every input
\* u, and the empty input yields the empty output.
C18_NormalizeIdempotent ==
    /\ npc = "twice" => twice = once
    /\ npc \in {"once", "twice"} /\ input_url = <<>> => once = <<>>

\* a blank-only input: the first application yields the bare prefix, the
\* second leaves it
C18_BlankInputNormalized ==
    /\ npc = "twice"
    /\ input_url = <<" ", " ">>
    /\ once = S_https
    /\ twice = S_https

(***************************************************************************)
(* Properties of link discovery under redirects.                           *)
(***************************************************************************)
\* the URL the fetch of a record's page ended at
ResolvedUrl(record) ==
    landed_url(record.url, Site[Resource(record.url)])

\* C19: every link of a successfully fetched page is one of the page's hrefs
\* resolved against the URL the fetch ended at (the redirect target when the
\* fetch was redirected), and is in scope with respect to that URL.
C19_LinksResolvedOnRedirectTarget ==
    \A i \in 1..Len(scraped_data) :
        "error" \notin DOMAIN scraped_data[i] =>
            \A k \in 1..Len(scraped_data[i].links) :
                /\ \E h \in Range(HrefsOf(scraped_data[i].url)) :
                      scraped_data[i].links[k]
                          = UrlJoin(ResolvedUrl(scraped_data[i]), h)
                /\ IF kind = "browser"
                   THEN is_valid_url(scraped_data[i].links[k],
                                     ResolvedUrl(scraped_data[i]))
                   ELSE simple_is_valid_url(scraped_data[i].links[k],
                                            ResolvedUrl(scraped_data[i]))

(***************************************************************************)
(* Properties of the export.                                               *)
(***************************************************************************)
\* C20: the CSV summary has one row per record of the corpus, in corpus
\* order, error records included, and every row tells whether its page
\* failed or succeeded.
C20_CsvRowPerRecord ==
    summary_data.exported =>
        /\ Len(summary_data.rows) = Len(scraped_data)
        /\ \A i \in 1..Len(summary_data.rows) :
              /\ summary_data.rows[i].url = scraped_data[i].url
              /\ \E f \in DOMAIN summary_data.rows[i] : f \in {"status", "error"}

(***************************************************************************)
(* Properties of the scope check.                                          *)
(***************************************************************************)
\* the path of url names a file of one of the types exts
FileOfType(url, exts) ==
    \E ext \in exts :
        /\ Len(UrlSplit(url, <<>>).path) >= Len(ext)
        /\ SubSeq(Lower(UrlSplit(url, <<>>).path),
                  Len(UrlSplit(url, <<>>).path) - Len(ext) + 1,
                  Len(UrlSplit(url, <<>>).path)) = ext

\* C30: every href of a loaded page that resolves to an http(s) URL with the
\* network location of the page and that is no file of a rejected type is
\* among the in-scope links of the page.
C30_SameSiteNonFileInScope ==
    lastFetch = "ok" =>
        \A h \in Range(HrefsOf(scraped_data[Len(scraped_data)].url)) :
            \E u \in {UrlJoin(scraped_data[Len(scraped_data)].url, h)} :
                /\ UrlSplit(u, <<>>).scheme \in {<<"h","t","t","p">>, <<"h","t","t","p","s">>}
                /\ Netloc(u) = Netloc(scraped_data[Len(scraped_data)].url)
                /\ ~FileOfType(u, IF kind = "browser" THEN BrowserExts ELSE SimpleExts)
                => u \in Range(lastRaw)

\* ---------------------------------------------------------------------
\* TranslationManager (translation_utils.py)
\* ---------------------------------------------------------------------

\* the number of leading characters of a text that enter the cache key
KeyLen == 100

\* calls made on one TranslationManager
MaxTranslations == 2

UpperChar(c) ==
    CASE c = "e" -> "E" [] c = "n" -> "N" [] c = "s" -> "S" [] OTHER -> c

\* str.upper()
Upper(s) == [i \in 1..Len(s) |-> UpperChar(s[i])]

L_en == <<"e","n">>
L_es == <<"e","s">>
Langs == {L_en, L_es}

\* KeyLen characters that two long texts have in common
Pad == [i \in 1..KeyLen |-> "a"]

T_short == <<" ","h","i"," ">>
T_fees == <<"F","e","e","s">>
T_longx == Pad \o <<"x">>
T_longy == Pad \o <<"y">>
Texts == {<<>>, T_short, T_fees, T_longx, T_longy}

\* the sets of texts on which translator.translate raises during one call
Failures == {{}, {T_fees}, Texts}

\* result.text of translator.translate(text, dest=target_lang): the text in
\* the target language, written as the text marked with that language
result_text(text, target_lang) == target_lang \o <<":">> \o text

\* the else branch of "if self.translator": f"[{target_lang.upper()}] {text}"
fallback_text(text, target_lang) ==
    IF target_lang # L_en THEN <<"[">> \o Upper(target_lang) \o <<"]", " ">> \o text
    ELSE text

\* text[:100]
key_text(text) == SubSeq(text, 1, IF Len(text) < KeyLen THEN Len(text) ELSE KeyLen)

\* f"translate_{hash(text[:100])}_{target_lang}_{source_lang or 'auto'}": equal
\* slices hash alike, and unequal slices are taken to hash apart
cache_key(text, target_lang) ==
    [slice |-> key_text(text), target_lang |-> target_lang, source_lang |-> "auto"]

\* "self.cache[cache_key] = translated_text; return translated_text"
cache_result(c, k, translated_text) ==
    [cache |-> (k :> translated_text) @@ c, text |-> translated_text]

\* translate_text(text, target_lang) on a manager whose cache is c; has_translator
\* is self.translator, failing the texts on which the translator raises.
\* The value is the cache afterwards and the text returned.
translate_text(c, text, target_lang, has_translator, failing) ==
    IF text = <<>> \/ Len(Strip(text)) < 3 THEN [cache |-> c, text |-> text]
    ELSE IF cache_key(text, target_lang) \in DOMAIN c
    THEN [cache |-> c, text |-> c[cache_key(text, target_lang)]]
    ELSE IF has_translator /\ text \in failing THEN [cache |-> c, text |-> text]
    ELSE cache_result(c, cache_key(text, target_lang),
                      IF has_translator THEN result_text(text, target_lang)
                      ELSE fallback_text(text, target_lang))

\* "d[field] = self.translate_text(d.get(field, ''), target_lang)" on st.item
set_translated(st, field, target_lang, has_translator, failing) ==
    CHOOSE r \in {[cache |-> t.cache,
                   item |-> [f \in DOMAIN st.item \cup {field} |->
                                IF f = field THEN t.text ELSE st.item[f]]] :
                  t \in {translate_text(st.cache, Get(st.item, field, <<>>),
                                        target_lang, has_translator, failing)}} : TRUE

\* "if field in page and page[field]: translated_page[field] = ..."
set_if_present(st, field, target_lang, has_translator, failing) ==
    IF field \in DOMAIN st.item /\ st.item[field] # <<>>
    THEN set_translated(st, field, target_lang, has_translator, failing)
    ELSE st

\* translate_page_content(page, target_lang): the cache afterwards and the copy
translate_page_content(c, page, target_lang, has_translator, failing) ==
    set_if_present(
        set_if_present(
            set_if_present([cache |-> c, item |-> page],
                           "title", target_lang, has_translator, failing),
            "content", target_lang, has_translator, failing),
        "meta_description", target_lang, has_translator, failing)

\* the two text fields the loops of translate_section_analysis translate at
\* each level, in the order of the code, and the list they descend into
name_field(level) ==
    CASE level = "section" -> "section_name"
      [] level = "subsection" -> "subsection_name"
      [] OTHER -> "page_title"

definition_field(level) ==
    CASE level = "section" -> "section_definition"
      [] level = "subsection" -> "subsection_definition"
      [] OTHER -> "content"

child_field(level) == IF level = "section" THEN "subsections" ELSE "relevant_pages"

child_level(level) == IF level = "section" THEN "subsection" ELSE "page"

RECURSIVE translate_items(_, _, _, _, _, _)

\* "for subsection in section.get('subsections', [])" and
\* "for page in subsection.get('relevant_pages', [])" on st.item
translate_children(st, level, target_lang, has_translator, failing) ==
    IF level = "page" \/ child_field(level) \notin DOMAIN st.item THEN st
    ELSE CHOOSE r \in {[cache |-> t.cache,
                        item |-> [st.item EXCEPT ![child_field(level)] = t.items]] :
                       t \in {translate_items(st.cache, st.item[child_field(level)],
                                              child_level(level), target_lang,
                                              has_translator, failing)}} : TRUE

\* variant of the loop body that passes the url of a page through
\* translate_text as well
translate_item_urls(c, item, level, target_lang, has_translator, failing) ==
    CHOOSE r \in {translate_children(
                      IF level = "page"
                      THEN set_translated(st, "url", target_lang, has_translator, failing)
                      ELSE st,
                      level, target_lang, has_translator, failing) :
                  st \in {set_translated(
                              set_translated([cache |-> c, item |-> item],
                                             name_field(level), target_lang,
                                             has_translator, failing),
                              definition_field(level), target_lang,
                              has_translator, failing)}} : TRUE

\* the body of one of the three loops for one element of its list
translate_item(c, item, level, target_lang, has_translator, failing) ==
    CHOOSE r \in {translate_children(st, level, target_lang, has_translator, failing) :
                  st \in {set_translated(
                              set_translated([cache |-> c, item |-> item],
                                             name_field(level), target_lang,
                                             has_translator, failing),
                              definition_field(level), target_lang,
                              has_translator, failing)}} : TRUE

\* one of the three loops over a list, first element first
translate_items(c, items, level, target_lang, has_translator, failing) ==
    IF items = <<>> THEN [cache |-> c, items |-> <<>>]
    ELSE CHOOSE r \in UNION {
             {[cache |-> t.cache, items |-> <<h.item>> \o t.items] :
              t \in {translate_items(h.cache, Tail(items), level, target_lang,
                                     has_translator, failing)}} :
             h \in {translate_item(c, Head(items), level, target_lang,
                                   has_translator, failing)}} : TRUE

\* translate_section_analysis(section_analysis, target_lang): the cache
\* afterwards and the dictionary returned
translate_section_analysis(c, analysis, target_lang, has_translator, failing) ==
    IF "sections" \notin DOMAIN analysis THEN [cache |-> c, item |-> analysis]
    ELSE CHOOSE r \in {[cache |-> t.cache,
                        item |-> [analysis EXCEPT !.sections = t.items]] :
                       t \in {translate_items(c, analysis.sections, "section",
                                              target_lang, has_translator, failing)}} : TRUE

\* a scraped page with the given title and content
InputPage(title, content) ==
    [url |-> U_p, title |-> title, content |-> content, meta_description |-> T_longy,
     links |-> <<U_q>>, word_count |-> 2, scraped_at |-> "ts"]

InputPages == {InputPage(t, T_longx) : t \in Texts}
              \cup {InputPage(T_fees, <<>>), ErrorRecord(U_q)}

\* an entry of relevant_pages as analyze_section_pages builds it
InputMatch(url, page_title, content, relevance_score) ==
    [page_title |-> page_title, url |-> url, content |-> content,
     screenshot_path |-> "", relevance_score |-> relevance_score, word_count |-> 2,
     ai_reasoning |-> "", confidence |-> "high"]

\* a result of analyze_content_for_sections: one section with two
\* subsections and three matched pages, one section without subsections
InputAnalysis(t) ==
    [organization_name |-> "a",
     sections |->
        <<[section_name |-> T_fees, section_definition |-> t,
           subsections |->
              <<[subsection_name |-> T_longx, subsection_definition |-> T_short,
                 relevant_pages |-> <<InputMatch(U_q, t, T_longy, 5 * Unit),
                                      InputMatch(U_p, T_fees, T_longx, 3 * Unit)>>],
                [subsection_name |-> t, subsection_definition |-> T_fees,
                 relevant_pages |-> <<InputMatch(U_q, T_longy, t, 4 * Unit)>>]>>,
           total_relevant_pages |-> 3, average_relevance_score |-> 4 * Unit,
           coverage_quality |-> "Excellent"],
          [section_name |-> T_longy, section_definition |-> T_fees,
           subsections |-> <<>>,
           total_relevant_pages |-> 0, average_relevance_score |-> 0,
           coverage_quality |-> "None"]>>,
     total_pages_scraped |-> 2, analysis_timestamp |-> "ts",
     analysis_method |-> "AI Section-Centric Analyst"]

InputAnalyses == {InputAnalysis(t) : t \in Texts}

\* TranslationManager(): an empty cache, a translator if googletrans is there
InitTranslate ==
    /\ kind = "browser" /\ enable_link_filtering = TRUE /\ siteId = 1
    /\ start_url = U_root /\ max_pages = 0 /\ pc = "idle"
    /\ visited_urls = {} /\ scraped_data = <<>> /\ urls_to_visit = <<>>
    /\ handles = NoHandles /\ closeCalls = 0 /\ appended = <<>>
    /\ lastRaw = <<>> /\ lastResp = <<>> /\ lastFiltered = <<>>
    /\ lastFetch = "none"
    /\ jpc = "direct" /\ classifyCalls = 0 /\ summaryCalls = 0
    /\ traditional_analysis = "none"
    /\ corpus = <<>>
    /\ response = [kind |-> "raise"]
    /\ returned_pages = <<>>
    /\ apc = "off"
    /\ sections_config = <<>>
    /\ sub_responses = <<>>
    /\ section_analysis = <<>>
    /\ spc = "off"
    /\ caller = "off" /\ threads = <<>> /\ calls = <<>> /\ store_writes = 0
    /\ input_url = <<>> /\ once = <<>> /\ twice = <<>> /\ npc = "off"
    /\ summary_data = [exported |-> FALSE]
    /\ run = 0 /\ first_corpus = <<>> /\ sleeps = 0
    /\ translator \in BOOLEAN
    /\ cache = <<>>
    /\ translations = 0
    /\ last = [op |-> "none"]

\* translate_text(text, target_lang)
TranslateText ==
    /\ translations < MaxTranslations
    /\ \E text \in Texts, target_lang \in Langs, failing \in Failures :
         \E r \in {translate_text(cache, text, target_lang, translator, failing)} :
            /\ cache' = r.cache
            /\ last' = [op |-> "text", text |-> text, target_lang |-> target_lang,
                        failing |-> failing, cache |-> cache, result |-> r.text]
    /\ translations' = translations + 1
    /\ UNCHANGED translator
    /\ UNCHANGED <<crawlVars, jobVars, analysisVars, sectionVars, bridgeVars,
                   normVars, summary_data, callVars>>

\* translate_page_content(page, target_lang)
TranslatePage ==
    /\ translations < MaxTranslations
    /\ \E page \in InputPages, target_lang \in Langs, failing \in Failures :
         \E r \in {translate_page_content(cache, page, target_lang, translator,
                                          failing)} :
            /\ cache' = r.cache
            /\ last' = [op |-> "page", page |-> page, target_lang |-> target_lang,
                        failing |-> failing, translated_page |-> r.item]
    /\ translations' = translations + 1
    /\ UNCHANGED translator
    /\ UNCHANGED <<crawlVars, jobVars, analysisVars, sectionVars, bridgeVars,
                   normVars, summary_data, callVars>>

\* translate_section_analysis(section_analysis, target_lang)
TranslateSectionAnalysis ==
    /\ translations < MaxTranslations
    /\ \E analysis \in InputAnalyses, target_lang \in Langs, failing \in Failures :
         \E r \in {translate_section_analysis(cache, analysis, target_lang,
                                              translator, failing)} :
            /\ cache' = r.cache
            /\ last' = [op |-> "analysis", section_analysis |-> analysis,
                        target_lang |-> target_lang, failing |-> failing,
                        translated_analysis |-> r.item]
    /\ translations' = translations + 1
    /\ UNCHANGED translator
    /\ UNCHANGED <<crawlVars, jobVars, analysisVars, sectionVars, bridgeVars,
                   normVars, summary_data, callVars>>

NextTranslate ==
    \/ TranslateText
    \/ TranslatePage
    \/ TranslateSectionAnalysis

SpecTranslate == InitTranslate /\ [][NextTranslate]_vars

\* ---------------------------------------------------------------------
\* Properties of the translation
\* ---------------------------------------------------------------------

\* two dictionaries with the same keys that agree outside the given keys
SameBut(a, b, fields) ==
    /\ DOMAIN a = DOMAIN b
    /\ \A f \in DOMAIN a \ fields : a[f] = b[f]

SamePages(a, b) ==
    /\ Len(a) = Len(b)
    /\ \A p \in 1..Len(a) : SameBut(a[p], b[p], {"page_title", "content"})

SameSubsections(a, b) ==
    /\ Len(a) = Len(b)
    /\ \A k \in 1..Len(a) :
          /\ SameBut(a[k], b[k], {"subsection_name", "subsection_definition",
                                  "relevant_pages"})
          /\ SamePages(a[k].relevant_pages, b[k].relevant_pages)

SameSections(a, b) ==
    /\ Len(a) = Len(b)
    /\ \A s \in 1..Len(a) :
          /\ SameBut(a[s], b[s], {"section_name", "section_definition", "subsections"})
          /\ SameSubsections(a[s].subsections, b[s].subsections)

\* C21: translate_page_content and translate_section_analysis change text
\* fields only, for every target language and whether or not the translator
\* raises: the translated page has the keys of the page and differs from it
\* in title, content and meta_description at most; the translated analysis
\* has as many sections, subsections and pages as the analysis, in the same
\* order, and each differs from its original in its name, its definition,
\* its page title and its content at most, so that scores, URLs, page counts,
\* coverage labels and word counts are the same.
C21_OnlyTextFieldsChange ==
    /\ last.op = "page" =>
          SameBut(last.page, last.translated_page,
                  {"title", "content", "meta_description"})
    /\ last.op = "analysis" =>
          /\ SameBut(last.section_analysis, last.translated_analysis, {"sections"})
          /\ SameSections(last.section_analysis.sections,
                          last.translated_analysis.sections)

\* an analysis was translated to Spanish by a translator that raised on one
\* of its texts: the name of the first section is still the original one,
\* the name of its first subsection and the title of a matched page are not
C21_AnalysisTranslated ==
    /\ last.op = "analysis"
    /\ translator
    /\ last.target_lang = L_es
    /\ last.failing = {T_fees}
    /\ last.translated_analysis.sections[1].section_name = T_fees
    /\ last.translated_analysis.sections[1].subsections[1].subsection_name
          = result_text(T_longx, L_es)
    /\ last.translated_analysis.sections[1].subsections[2].relevant_pages[1].page_title
          # T_longy

\* C29: translate_text(t, lang) returns a translation of t itself whatever
\* was translated before: what the translator or the fallback makes of t, or
\* t unchanged, and never what an earlier call made of another text.
C29_TranslationOfTheTextItself ==
    last.op = "text" =>
        last.result \in {last.text,
                         result_text(last.text, last.target_lang),
                         fallback_text(last.text, last.target_lang)}

====
